---- MODULE Spec2Model ----
(***************************************************************************)
(* Zoo Planner (src/app.js, second listing, lines 1196-3146): the spatial  *)
(* placement engine.  The store (placedBuildings, placedDecorations,       *)
(* enclosures), the pointer gestures (draw / move / resize), the palette   *)
(* drop, the deletions, start-over, the confirmation dialog and the URL    *)
(* codec are modelled handler by handler.                                  *)
(*                                                                         *)
(* Strings are sequences of one-character strings.  An instance id         *)
(* `${type}-${n}` is kept in the state as the pair [t |-> type, n |-> n]   *)
(* (the pairing is injective, because n holds no '-'); IdStr rebuilds the  *)
(* characters whenever the code uses a string operation on it.             *)
(* Rendering is left out: the DOM is a projection of the store, and the    *)
(* hit test of a down event is resolved against the stored rectangles.     *)
(***************************************************************************)
EXTENDS Integers, Sequences, FiniteSets, TLC

VARIABLES
    loaded,             \* init() has run loadFromURL
    url,                \* the 'z' query parameter (characters); <<>> when absent
    selectedAnimal,     \* state.selectedAnimal
    placedBuildings,    \* state.placedBuildings
    placedDecorations,  \* state.placedDecorations
    enclosures,         \* state.enclosures
    drawing,            \* state.drawing
    movingItem,         \* state.movingItem
    moveStartPos,       \* state.moveStartPos
    resizingEnclosure,  \* state.resizingEnclosure
    nextEnclosureId,    \* state.nextEnclosureId
    nextBuildingId,     \* state.nextBuildingId
    nextDecorationId,   \* state.nextDecorationId
    assigned,           \* history: the id numbers handed out so far, per collection
    pending,            \* confirmation dialogs on screen, oldest first
    last,               \* history: the handler that ran last and the branch it took
    began,              \* history: where the down event of each gesture under way was
    probe,              \* argument of a function applied on its own
    result              \* value of a function applied on its own

vars == << loaded, url, selectedAnimal, placedBuildings, placedDecorations,
           enclosures, drawing, movingItem, moveStartPos, resizingEnclosure,
           nextEnclosureId, nextBuildingId, nextDecorationId, assigned, pending,
           last, began, probe, result >>

storeVars == << placedBuildings, placedDecorations, enclosures >>

gestureVars == << drawing, movingItem, moveStartPos, resizingEnclosure >>

idVars == << nextEnclosureId, nextBuildingId, nextDecorationId, assigned >>

fnVars == << probe, result >>

\* JavaScript null / undefined for record-valued fields.
NULL == [null |-> TRUE]

\* JavaScript null for state.selectedAnimal (a string otherwise).
NoAnimal == "null"

----------------------------------------------------------------------------
(* Program constants *)

GRID_SIZE == 30

CELL_SIZE == 20

\* EDGE_THRESHOLD = 0.3 grid cells, in pixels (0.3 * CELL_SIZE).
EDGE_THRESHOLD_PX == 6

\* A release closer than this to the down position is a click.
CLICK_DISTANCE == 5

\* isNearSVG: the margin around the grid, in pixels.
NEAR_MARGIN == 50

\* distanceMoved when state.moveStartPos is null.
NO_START_DISTANCE == 100

----------------------------------------------------------------------------
(* Bounds of the model *)

\* Ids handed out per counter: an insertion needs next*Id <= MaxId.
MaxId == 2

\* Entities in the store at a time: an insertion through the page needs fewer.
MaxEntities == 2

----------------------------------------------------------------------------
(* Strings *)

Min(a, b) == IF a <= b THEN a ELSE b

Max(a, b) == IF a >= b THEN a ELSE b

Abs(a) == IF a < 0 THEN 0 - a ELSE a

\* String.prototype.startsWith
StartsWith(s, p) == Len(s) >= Len(p) /\ SubSeq(s, 1, Len(p)) = p

\* String.prototype.includes
Includes(s, sub) ==
    \E i \in 1..(Len(s) - Len(sub) + 1) : SubSeq(s, i, i + Len(sub) - 1) = sub

\* s.split(sep): the pieces between the occurrences of the character sep.
RECURSIVE Split(_, _)
Split(s, sep) ==
    IF \A i \in 1..Len(s) : s[i] # sep
    THEN << s >>
    ELSE LET k == CHOOSE i \in 1..Len(s) :
                      s[i] = sep /\ \A j \in 1..(i - 1) : s[j] # sep
         IN  << SubSeq(s, 1, k - 1) >> \o Split(SubSeq(s, k + 1, Len(s)), sep)

\* A variant: nothing is stripped.
StripNothing(s) == s

\* s.replace(/\.+$/, ''): drop the trailing periods.
RECURSIVE StripTrailingDots(_)
StripTrailingDots(s) ==
    IF Len(s) > 0 /\ s[Len(s)] = "."
    THEN StripTrailingDots(SubSeq(s, 1, Len(s) - 1))
    ELSE s

\* The digits of radix 36, in order.
DIGITS ==
    << "0", "1", "2", "3", "4", "5", "6", "7", "8", "9", "a", "b", "c", "d",
       "e", "f", "g", "h", "i", "j", "k", "l", "m", "n", "o", "p", "q", "r",
       "s", "t", "u", "v", "w", "x", "y", "z" >>

\* Number.prototype.toString(radix), for an integer.
RECURSIVE ToRadix(_, _)
ToRadix(num, radix) ==
    IF num < 0 THEN << "-" >> \o ToRadix(0 - num, radix)
    ELSE IF num < radix THEN << DIGITS[num + 1] >>
    ELSE ToRadix(num \div radix, radix) \o << DIGITS[(num % radix) + 1] >>

\* parseInt's NaN.  No digit parses to a negative number and no stored
\* coordinate is this small, so the value stands for nothing else; it is only
\* ever tested for and written out, never computed with.
NaN == -1000

\* A variant: the number is written in radix 10.
toBase36Decimal(num) == ToRadix(num, 10)

toBase36(num) ==
    IF num = NaN THEN << "N", "a", "N" >> ELSE ToRadix(num, 36)

\* parseInt(str, 36) of a one-character string (decodeZooState passes nothing else).
fromBase36(ch) ==
    IF \E d \in 1..36 : DIGITS[d] = ch
    THEN (CHOOSE d \in 1..36 : DIGITS[d] = ch) - 1
    ELSE NaN

----------------------------------------------------------------------------
(* Catalogs: BUILDINGS, DECORATIONS and ANIMALS are loaded from JSON files   *)
(* that are configuration, not code.  The model fixes small catalogs.  The   *)
(* unlimited building entry is the one the code names, 'restroom'.  One type *)
(* id is a substring of another ('shop' in 'giftshop'), and one decoration   *)
(* shares its type id with a building: type ids are unique per catalog only. *)

\* The characters of a type id.
TypeChars(t) ==
    CASE t = "giftshop"  -> << "g", "i", "f", "t", "s", "h", "o", "p" >>
      [] t = "restroom"  -> << "r", "e", "s", "t", "r", "o", "o", "m" >>
      [] t = "shop"      -> << "s", "h", "o", "p" >>
      [] t = "tree"      -> << "t", "r", "e", "e" >>
      [] t = "enclosure" -> << "e", "n", "c", "l", "o", "s", "u", "r", "e" >>
      [] OTHER           -> << >>

BUILDINGS ==
    << [id |-> "giftshop", width |-> 2, height |-> 1],
       [id |-> "restroom", width |-> 1, height |-> 1],
       [id |-> "shop",     width |-> 1, height |-> 1] >>

DECORATIONS ==
    << [id |-> "tree", width |-> 1, height |-> 1],
       [id |-> "shop", width |-> 1, height |-> 1] >>

ANIMALS ==
    << [id |-> "lion",  minArea |-> 12, minPerimeter |-> 14],
       [id |-> "zebra", minArea |-> 4,  minPerimeter |-> 10] >>

\* The string `${type}-${n}` of an instance id.
IdStr(id) == TypeChars(id.t) \o << "-" >> \o ToRadix(id.n, 10)

\* Array.prototype.findIndex over a catalog, for a type id given as characters:
\* the 0-based index of the first entry with that id, -1 when there is none.
FindIndexByChars(catalog, chars) ==
    IF \E i \in 1..Len(catalog) : TypeChars(catalog[i].id) = chars
    THEN (CHOOSE i \in 1..Len(catalog) :
              /\ TypeChars(catalog[i].id) = chars
              /\ \A j \in 1..(i - 1) : TypeChars(catalog[j].id) # chars) - 1
    ELSE -1

\* ANIMALS.findIndex(a => a.id === animalId)
FindAnimalIndex(animalId) ==
    IF \E i \in 1..Len(ANIMALS) : ANIMALS[i].id = animalId
    THEN (CHOOSE i \in 1..Len(ANIMALS) :
              /\ ANIMALS[i].id = animalId
              /\ \A j \in 1..(i - 1) : ANIMALS[j].id # animalId) - 1
    ELSE -1

\* catalog[index] of JavaScript (0-based); NULL for undefined.
At(catalog, index) ==
    IF index >= 0 /\ index < Len(catalog) THEN catalog[index + 1] ELSE NULL

\* The concatenation of a sequence of strings: Array.prototype.join('').
RECURSIVE Join(_)
Join(ss) == IF ss = << >> THEN << >> ELSE Head(ss) \o Join(Tail(ss))

\* The elements of a sequence.
Range(seq) == { seq[i] : i \in 1..Len(seq) }

----------------------------------------------------------------------------
(* checkOverlap *)

\* A variant: rectangles that share an edge count as overlapping.
EntityOverlapTouching(gridX, gridY, width, height, e) ==
    ~ ( \/ gridX + width < e.gridX
        \/ gridX > e.gridX + e.width
        \/ gridY + height < e.gridY
        \/ gridY > e.gridY + e.height )

\* The per-entity test of checkOverlap: rectangle (gridX, gridY, width, height)
\* against the stored entity e.
EntityOverlap(gridX, gridY, width, height, e) ==
    ~ ( \/ gridX + width <= e.gridX
        \/ gridX >= e.gridX + e.width
        \/ gridY + height <= e.gridY
        \/ gridY >= e.gridY + e.height )

\* A variant: the decorations are not examined.
OverlapInSkipDecorations(bs, ds, es, gridX, gridY, width, height, excludeId) ==
    \/ \E i \in 1..Len(bs) :
          bs[i].id # excludeId /\ EntityOverlap(gridX, gridY, width, height, bs[i])
    \/ \E i \in 1..Len(es) :
          es[i].id # excludeId /\ EntityOverlap(gridX, gridY, width, height, es[i])

\* checkOverlap over given collections.
OverlapIn(bs, ds, es, gridX, gridY, width, height, excludeId) ==
    \/ \E i \in 1..Len(bs) :
          bs[i].id # excludeId /\ EntityOverlap(gridX, gridY, width, height, bs[i])
    \/ \E i \in 1..Len(ds) :
          ds[i].id # excludeId /\ EntityOverlap(gridX, gridY, width, height, ds[i])
    \/ \E i \in 1..Len(es) :
          es[i].id # excludeId /\ EntityOverlap(gridX, gridY, width, height, es[i])

checkOverlap(gridX, gridY, width, height, excludeId) ==
    OverlapIn(placedBuildings, placedDecorations, enclosures,
              gridX, gridY, width, height, excludeId)

\* fitsInGrid of handleGridMouseUp.
FitsInGrid(gridX, gridY, width, height) ==
    /\ gridX >= 0
    /\ gridY >= 0
    /\ gridX + width <= GRID_SIZE
    /\ gridY + height <= GRID_SIZE

----------------------------------------------------------------------------
(* The URL codec *)

\* encodeZooState over given collections.
EncodeOf(bs, ds, es) ==
    LET buildingStr ==
            Join([i \in 1..Len(bs) |->
                    LET typeId    == Split(IdStr(bs[i].id), "-")[1]
                        typeIndex == FindIndexByChars(BUILDINGS, typeId)
                    IN  toBase36(typeIndex) \o toBase36(bs[i].gridX)
                                            \o toBase36(bs[i].gridY)])
        decorationStr ==
            Join([i \in 1..Len(ds) |->
                    LET typeId    == Split(IdStr(ds[i].id), "-")[1]
                        typeIndex == FindIndexByChars(DECORATIONS, typeId)
                    IN  toBase36(typeIndex) \o toBase36(ds[i].gridX)
                                            \o toBase36(ds[i].gridY)])
        enclosureStr ==
            Join([i \in 1..Len(es) |->
                    LET animalIndex == FindAnimalIndex(es[i].animal)
                    IN  toBase36(animalIndex) \o toBase36(es[i].gridX)
                            \o toBase36(es[i].gridY) \o toBase36(es[i].width)
                            \o toBase36(es[i].height)])
    IN  StripTrailingDots(buildingStr \o << "." >> \o decorationStr
                                      \o << "." >> \o enclosureStr)

encodeZooState == EncodeOf(placedBuildings, placedDecorations, enclosures)

\* A variant: a section with a trailing partial record gives no record.
DecodeItemsWholeOnly(str) ==
    IF Len(str) % 3 # 0 THEN << >>
    ELSE [k \in 1..(Len(str) \div 3) |->
            [typeIndex |-> fromBase36(str[3 * (k - 1) + 1]),
             x         |-> fromBase36(str[3 * (k - 1) + 2]),
             y         |-> fromBase36(str[3 * (k - 1) + 3])]]

\* The loop of decodeZooState over one section: a record per full stride of 3.
DecodeItems(str) ==
    [k \in 1..(Len(str) \div 3) |->
        [typeIndex |-> fromBase36(str[3 * (k - 1) + 1]),
         x         |-> fromBase36(str[3 * (k - 1) + 2]),
         y         |-> fromBase36(str[3 * (k - 1) + 3])]]

\* The loop of decodeZooState over the enclosure section: stride 5.
DecodeEnclosures(str) ==
    [k \in 1..(Len(str) \div 5) |->
        [animalIndex |-> fromBase36(str[5 * (k - 1) + 1]),
         x           |-> fromBase36(str[5 * (k - 1) + 2]),
         y           |-> fromBase36(str[5 * (k - 1) + 3]),
         w           |-> fromBase36(str[5 * (k - 1) + 4]),
         h           |-> fromBase36(str[5 * (k - 1) + 5])]]

\* decodeZooState: nothing in the try block throws for a string, so the
\* catch (return null) is never taken.
decodeZooState(compact) ==
    LET parts         == Split(compact, ".")
        buildingStr   == IF Len(parts) >= 1 THEN parts[1] ELSE << >>
        decorationStr == IF Len(parts) >= 2 THEN parts[2] ELSE << >>
        enclosureStr  == IF Len(parts) >= 3 THEN parts[3] ELSE << >>
    IN  [buildings   |-> DecodeItems(buildingStr),
         decorations |-> DecodeItems(decorationStr),
         enclosures  |-> DecodeEnclosures(enclosureStr)]

\* updateURL: the 'z' parameter is set when the encoding is non-empty and
\* neither '.' nor '..', and is absent otherwise.
UrlOf(bs, ds, es) ==
    LET encoded == EncodeOf(bs, ds, es)
    IN  IF encoded # << >> /\ encoded # << "." >> /\ encoded # << ".", "." >>
        THEN encoded ELSE << >>

----------------------------------------------------------------------------
(* Pointer events.  A pointer position is the raw position in pixels        *)
(* relative to the top-left corner of the grid (clientX - rect.left).       *)

\* The pointer positions of a world of one row, columns 0 and 1.  In a cell
\* the offset 10 is the middle, and the offset 2 is within EDGE_THRESHOLD of
\* the cell's low side.
RowPositions ==
    { [x |-> 2, y |-> 10], [x |-> 10, y |-> 10],
      [x |-> 22, y |-> 10], [x |-> 30, y |-> 10] }

\* Where a down event arrives while a gesture is under way (a second button,
\* a second finger), in that world.
RowNestedPositions == { [x |-> 10, y |-> 10], [x |-> 22, y |-> 10] }

\* A position farther than NEAR_MARGIN outside the grid, and one outside the
\* grid but inside the margin (a touch that left the grid, a release elsewhere).
OutsidePositions ==
    { [x |-> 0 - (NEAR_MARGIN + 10), y |-> 10], [x |-> 0 - 10, y |-> 10] }

\* A variant of getGridPoint that does not clamp the cell into the grid.
getGridPointUnclamped(p) ==
    [gridX |-> p.x \div CELL_SIZE, gridY |-> p.y \div CELL_SIZE]

\* getGridPoint(e): the grid cell under the pointer, clamped into the grid.
getGridPoint(p) ==
    [gridX |-> Max(0, Min(GRID_SIZE - 1, p.x \div CELL_SIZE)),
     gridY |-> Max(0, Min(GRID_SIZE - 1, p.y \div CELL_SIZE))]

\* getGridPoint(e, true): the precise position, kept in pixels
\* (the code divides by CELL_SIZE; the clamp is to [0, GRID_SIZE] cells).
getPrecisePoint(p) ==
    [x |-> Max(0, Min(GRID_SIZE * CELL_SIZE, p.x)),
     y |-> Max(0, Min(GRID_SIZE * CELL_SIZE, p.y))]

\* A variant of isNearSVG without a margin test.
isNearSVGAlways(p) == TRUE

\* isNearSVG of handleGridMouseMove.
isNearSVG(p) ==
    /\ p.x >= 0 - NEAR_MARGIN
    /\ p.x <= GRID_SIZE * CELL_SIZE + NEAR_MARGIN
    /\ p.y >= 0 - NEAR_MARGIN
    /\ p.y <= GRID_SIZE * CELL_SIZE + NEAR_MARGIN

\* distanceMoved < 5 of handleGridMouseUp: the distance between the down and
\* the up position, NO_START_DISTANCE when moveStartPos is null.
IsClick(start, p) ==
    IF start = NULL
    THEN NO_START_DISTANCE < CLICK_DISTANCE
    ELSE (p.x - start.x) * (p.x - start.x) + (p.y - start.y) * (p.y - start.y)
            < CLICK_DISTANCE * CLICK_DISTANCE

\* History: the release at p is closer than CLICK_DISTANCE to the down event
\* at down (the position of the event itself, whatever the handler kept).
ReleasedNear(down, p) ==
    /\ down # NULL
    /\ (p.x - down.x) * (p.x - down.x) + (p.y - down.y) * (p.y - down.y)
           < CLICK_DISTANCE * CLICK_DISTANCE

\* A variant of the edge flags: a side counts as near whatever the opposite
\* side is.
EdgeFlagsBoth(enclosure, m) ==
    LET left   == enclosure.gridX * CELL_SIZE
        right  == (enclosure.gridX + enclosure.width) * CELL_SIZE
        top    == enclosure.gridY * CELL_SIZE
        bottom == (enclosure.gridY + enclosure.height) * CELL_SIZE
    IN  IF /\ m.x >= left - EDGE_THRESHOLD_PX
           /\ m.x <= right + EDGE_THRESHOLD_PX
           /\ m.y >= top - EDGE_THRESHOLD_PX
           /\ m.y <= bottom + EDGE_THRESHOLD_PX
        THEN [left   |-> Abs(m.x - left) <= EDGE_THRESHOLD_PX,
              right  |-> Abs(m.x - right) <= EDGE_THRESHOLD_PX,
              top    |-> Abs(m.y - top) <= EDGE_THRESHOLD_PX,
              bottom |-> Abs(m.y - bottom) <= EDGE_THRESHOLD_PX]
        ELSE NULL

\* The edge flags detectEnclosureEdge computes for one enclosure, NULL when
\* the pointer is outside the enclosure widened by the threshold.
EdgeFlags(enclosure, m) ==
    LET left   == enclosure.gridX * CELL_SIZE
        right  == (enclosure.gridX + enclosure.width) * CELL_SIZE
        top    == enclosure.gridY * CELL_SIZE
        bottom == (enclosure.gridY + enclosure.height) * CELL_SIZE
        nearLeft   == Abs(m.x - left) <= EDGE_THRESHOLD_PX
        nearRight  == Abs(m.x - right) <= EDGE_THRESHOLD_PX
        nearTop    == Abs(m.y - top) <= EDGE_THRESHOLD_PX
        nearBottom == Abs(m.y - bottom) <= EDGE_THRESHOLD_PX
    IN  IF /\ m.x >= left - EDGE_THRESHOLD_PX
           /\ m.x <= right + EDGE_THRESHOLD_PX
           /\ m.y >= top - EDGE_THRESHOLD_PX
           /\ m.y <= bottom + EDGE_THRESHOLD_PX
        THEN [left   |-> nearLeft /\ ~nearRight,
              right  |-> nearRight /\ ~nearLeft,
              top    |-> nearTop /\ ~nearBottom,
              bottom |-> nearBottom /\ ~nearTop]
        ELSE NULL

AnyEdge(edge) ==
    edge # NULL /\ (edge.left \/ edge.right \/ edge.top \/ edge.bottom)

\* A variant of detectEnclosureEdge that ignores the sides covered by the
\* body of a building.
detectEnclosureEdgeUncovered(m) ==
    IF /\ \E i \in 1..Len(enclosures) : AnyEdge(EdgeFlags(enclosures[i], m))
       /\ \A b \in 1..Len(placedBuildings) :
             ~ /\ placedBuildings[b].gridX * CELL_SIZE <= m.x
               /\ m.x < (placedBuildings[b].gridX + 1) * CELL_SIZE
               /\ placedBuildings[b].gridY * CELL_SIZE <= m.y
               /\ m.y < (placedBuildings[b].gridY + 1) * CELL_SIZE
    THEN LET k == CHOOSE i \in 1..Len(enclosures) :
                      /\ AnyEdge(EdgeFlags(enclosures[i], m))
                      /\ \A j \in 1..(i - 1) : ~AnyEdge(EdgeFlags(enclosures[j], m))
         IN  [enclosure |-> enclosures[k], edge |-> EdgeFlags(enclosures[k], m)]
    ELSE NULL

\* detectEnclosureEdge: the first enclosure, in store order, with a side near
\* the pointer; NULL when there is none.
detectEnclosureEdge(m) ==
    IF \E i \in 1..Len(enclosures) : AnyEdge(EdgeFlags(enclosures[i], m))
    THEN LET k == CHOOSE i \in 1..Len(enclosures) :
                      /\ AnyEdge(EdgeFlags(enclosures[i], m))
                      /\ \A j \in 1..(i - 1) : ~AnyEdge(EdgeFlags(enclosures[j], m))
         IN  [enclosure |-> enclosures[k], edge |-> EdgeFlags(enclosures[k], m)]
    ELSE NULL

\* The rendered rectangle of an entity holds the pointer.
Contains(e, p) ==
    /\ p.x >= e.gridX * CELL_SIZE
    /\ p.x < (e.gridX + e.width) * CELL_SIZE
    /\ p.y >= e.gridY * CELL_SIZE
    /\ p.y < (e.gridY + e.height) * CELL_SIZE

\* e.target of a down event: the group 'buildings' is drawn over the group
\* 'enclosures' (setupGrid); inside a group any element under the pointer may
\* be the top one.  The result is the element's class and its data id.
HitTargets(p) ==
    LET items == { e \in Range(placedBuildings) \cup Range(placedDecorations) :
                      Contains(e, p) }
        encs  == { e \in Range(enclosures) : Contains(e, p) }
    IN  IF items # {}
        THEN { [class |-> "building", id |-> e.id] : e \in items }
        ELSE { [class |-> "enclosure", id |-> e.id] : e \in encs }

----------------------------------------------------------------------------
(* The store, and the objects a gesture holds on to *)

\* The number of entities in the store.
EntityCount == Len(placedBuildings) + Len(placedDecorations) + Len(enclosures)

\* Array.prototype.find by id; NULL for undefined.
FindById(seq, id) ==
    IF \E i \in 1..Len(seq) : seq[i].id = id
    THEN seq[CHOOSE i \in 1..Len(seq) :
                 seq[i].id = id /\ \A j \in 1..(i - 1) : seq[j].id # id]
    ELSE NULL

Collection(type) ==
    CASE type = "building"   -> placedBuildings
      [] type = "decoration" -> placedDecorations
      [] type = "enclosure"  -> enclosures

\* The object a gesture record refers to.  The record holds a reference: the
\* object is the stored entity, or, once that entity has been removed from
\* the store, the copy kept in the record's field data.
ObjectOf(type, g) ==
    IF g.data # NULL THEN g.data ELSE FindById(Collection(type), g.id)

\* A variant: the geometry is written to the first entity of the collection,
\* whatever its id.
WithGeometryFirst(seq, id, geo) ==
    [i \in 1..Len(seq) |->
        IF i = 1
        THEN [seq[i] EXCEPT !.gridX = geo.gridX, !.gridY = geo.gridY,
                            !.width = geo.width, !.height = geo.height]
        ELSE seq[i]]

\* seq with the geometry fields of the first entity of that id replaced.
WithGeometry(seq, id, geo) ==
    [i \in 1..Len(seq) |->
        IF seq[i].id = id /\ \A j \in 1..(i - 1) : seq[j].id # id
        THEN [seq[i] EXCEPT !.gridX = geo.gridX, !.gridY = geo.gridY,
                            !.width = geo.width, !.height = geo.height]
        ELSE seq[i]]

Geometry(e) ==
    [gridX |-> e.gridX, gridY |-> e.gridY, width |-> e.width, height |-> e.height]

\* A variant: the geometry is written to the first entity of every collection.
StoreAfterWriteEveryCollection(type, g, geo) ==
    [b |-> WithGeometryFirst(placedBuildings, g.id, geo),
     d |-> WithGeometryFirst(placedDecorations, g.id, geo),
     e |-> WithGeometryFirst(enclosures, g.id, geo)]

\* The three collections after the object of gesture g (of the given type)
\* is given the geometry geo; a removed object is not in the store.
StoreAfterWrite(type, g, geo) ==
    [b |-> IF type = "building" /\ g.data = NULL
           THEN WithGeometry(placedBuildings, g.id, geo) ELSE placedBuildings,
     d |-> IF type = "decoration" /\ g.data = NULL
           THEN WithGeometry(placedDecorations, g.id, geo) ELSE placedDecorations,
     e |-> IF type = "enclosure" /\ g.data = NULL
           THEN WithGeometry(enclosures, g.id, geo) ELSE enclosures]

\* The gesture record g after the same write.
GestureAfterWrite(g, geo) ==
    IF g.data = NULL THEN g
    ELSE [g EXCEPT !.data = [g.data EXCEPT !.gridX = geo.gridX, !.gridY = geo.gridY,
                                           !.width = geo.width, !.height = geo.height]]

\* A gesture record after the entities of the ids in gone were removed from
\* the collection of the given type: the record keeps its object.
Detached(type, g, gone) ==
    IF g # NULL /\ g.data = NULL /\ g.id \in gone
    THEN [g EXCEPT !.data = FindById(Collection(type), g.id)]
    ELSE g

\* The numbers of the ids of the entities in the collections bs, ds and es.
SuffixesOf(bs, ds, es) ==
    [building   |-> { bs[i].id.n : i \in 1..Len(bs) },
     decoration |-> { ds[i].id.n : i \in 1..Len(ds) },
     enclosure  |-> { es[i].id.n : i \in 1..Len(es) }]

\* History: the id numbers handed out, once the collections are bs, ds and es.
AssignedWith(bs, ds, es) ==
    [k \in { "building", "decoration", "enclosure" } |->
        assigned[k] \cup SuffixesOf(bs, ds, es)[k]]

----------------------------------------------------------------------------
(* The animal list *)

UsedAnimals(es) == { es[i].animal : i \in 1..Len(es) }

\* selectAnimal(animalId) given the enclosures es and the selection sel:
\* a used animal is not selected.
SelectOf(es, sel, animalId) ==
    IF animalId \in UsedAnimals(es) THEN sel ELSE animalId

\* A variant of renderAnimalList that keeps a selected animal that is used.
RenderAnimalListKeepsUsed(es, sel) ==
    IF Len(ANIMALS) > 0 /\ sel = NoAnimal
    THEN SelectOf(es, sel, ANIMALS[1].id) ELSE sel

\* renderAnimalList: the selection it leaves.  The first animal is selected
\* when nothing is; a selected animal that is used gives way to the first
\* available one, or to null.
RenderAnimalList(es, sel) ==
    LET used == UsedAnimals(es)
        sel1 == IF Len(ANIMALS) > 0 /\ sel = NoAnimal
                THEN SelectOf(es, sel, ANIMALS[1].id) ELSE sel
    IN  IF sel1 \in used
        THEN IF \E i \in 1..Len(ANIMALS) : ANIMALS[i].id \notin used
             THEN ANIMALS[CHOOSE i \in 1..Len(ANIMALS) :
                              /\ ANIMALS[i].id \notin used
                              /\ \A j \in 1..(i - 1) : ANIMALS[j].id \in used].id
             ELSE NoAnimal
        ELSE sel1

----------------------------------------------------------------------------
(* init and loadFromURL *)

\* The strings the page may be opened with (the 'z' parameter).
UrlInputs ==
    { << >>,
      \* a restroom at (0,0) and a tree on the same cell
      << "1", "0", "0", ".", "0", "0", "0" >>,
      \* a giftshop at (0,0) and one at (29,0): two cells wide, it leaves the grid
      << "0", "0", "0", "0", "t", "0" >>,
      \* two lion enclosures, side by side
      << ".", ".", "0", "0", "0", "1", "1", "0", "1", "0", "1", "1" >>,
      \* a restroom at (1,0) and a lion enclosure of one cell at (0,0)
      << "1", "1", "0", ".", ".", "0", "0", "0", "1", "1" >> }

\* The buildings loadFromURL adds for the decoded records recs, given the
\* collection and the counter so far: [items, next].
RECURSIVE LoadItems(_, _, _, _)
LoadItems(recs, catalog, items, next) ==
    IF recs = << >> THEN [items |-> items, next |-> next]
    ELSE LET def == At(catalog, Head(recs).typeIndex)
         IN  IF def # NULL
             THEN LoadItems(Tail(recs), catalog,
                            Append(items, [id     |-> [t |-> def.id, n |-> next],
                                           gridX  |-> Head(recs).x,
                                           gridY  |-> Head(recs).y,
                                           width  |-> def.width,
                                           height |-> def.height]),
                            next + 1)
             ELSE LoadItems(Tail(recs), catalog, items, next)

\* The enclosures loadFromURL adds: the id is drawn before the animal is
\* looked up, so a record of an unknown animal uses up an id.
RECURSIVE LoadEnclosures(_, _, _)
LoadEnclosures(recs, items, next) ==
    IF recs = << >> THEN [items |-> items, next |-> next]
    ELSE LET animal == At(ANIMALS, Head(recs).animalIndex)
         IN  IF animal # NULL
             THEN LoadEnclosures(Tail(recs),
                                 Append(items, [id     |-> [t |-> "enclosure", n |-> next],
                                                gridX  |-> Head(recs).x,
                                                gridY  |-> Head(recs).y,
                                                width  |-> Head(recs).w,
                                                height |-> Head(recs).h,
                                                animal |-> animal.id]),
                                 next + 1)
             ELSE LoadEnclosures(Tail(recs), items, next + 1)

\* The state after construction: init() has set up the lists (the first
\* animal is selected by renderAnimalList) and is about to call loadFromURL.
Init ==
    /\ loaded = FALSE
    /\ url \in UrlInputs
    /\ selectedAnimal = RenderAnimalList(<< >>, NoAnimal)
    /\ placedBuildings = << >>
    /\ placedDecorations = << >>
    /\ enclosures = << >>
    /\ drawing = NULL
    /\ movingItem = NULL
    /\ moveStartPos = NULL
    /\ resizingEnclosure = NULL
    /\ nextEnclosureId = 1
    /\ nextBuildingId = 1
    /\ nextDecorationId = 1
    /\ assigned = SuffixesOf(placedBuildings, placedDecorations, enclosures)
    /\ pending = << >>
    /\ last = [op |-> "init", out |-> "none"]
    /\ began = [moving |-> NULL, resizing |-> NULL]
    /\ probe = NULL
    /\ result = NULL

\* The state after construction when the page is opened with one of the
\* strings inputs: as Init, for those strings.
InitWith(inputs) ==
    /\ loaded = FALSE
    /\ url \in inputs
    /\ selectedAnimal = RenderAnimalList(<< >>, NoAnimal)
    /\ placedBuildings = << >>
    /\ placedDecorations = << >>
    /\ enclosures = << >>
    /\ drawing = NULL
    /\ movingItem = NULL
    /\ moveStartPos = NULL
    /\ resizingEnclosure = NULL
    /\ nextEnclosureId = 1
    /\ nextBuildingId = 1
    /\ nextDecorationId = 1
    /\ assigned = SuffixesOf(placedBuildings, placedDecorations, enclosures)
    /\ pending = << >>
    /\ last = [op |-> "init", out |-> "none"]
    /\ began = [moving |-> NULL, resizing |-> NULL]
    /\ probe = NULL
    /\ result = NULL

\* loadFromURL, called once by init().
LoadFromURL ==
    /\ ~loaded
    /\ loaded' = TRUE
    /\ IF url = << >>
       THEN /\ UNCHANGED << url, selectedAnimal, storeVars, idVars >>
            /\ last' = [op |-> "load", out |-> "none"]
       ELSE LET data == decodeZooState(url)
                bs   == LoadItems(data.buildings, BUILDINGS,
                                  placedBuildings, nextBuildingId)
                ds   == LoadItems(data.decorations, DECORATIONS,
                                  placedDecorations, nextDecorationId)
                es   == LoadEnclosures(data.enclosures, enclosures, nextEnclosureId)
            IN  /\ placedBuildings' = bs.items
                /\ nextBuildingId' = bs.next
                /\ placedDecorations' = ds.items
                /\ nextDecorationId' = ds.next
                /\ enclosures' = es.items
                /\ nextEnclosureId' = es.next
                /\ assigned' = AssignedWith(bs.items, ds.items, es.items)
                /\ selectedAnimal' =
                       IF Len(data.enclosures) > 0
                       THEN RenderAnimalList(es.items, selectedAnimal)
                       ELSE selectedAnimal
                /\ url' = UrlOf(bs.items, ds.items, es.items)
                /\ last' = [op |-> "load", out |-> "loaded"]
    /\ UNCHANGED << gestureVars, pending, began, fnVars >>

----------------------------------------------------------------------------
(* The palette drop *)

\* Every palette entry's id.
PaletteIds ==
    { BUILDINGS[i].id : i \in 1..Len(BUILDINGS) }
        \cup { DECORATIONS[i].id : i \in 1..Len(DECORATIONS) }

\* BUILDINGS.find / DECORATIONS.find by type id; NULL for undefined.
FindDef(catalog, itemId) ==
    IF \E i \in 1..Len(catalog) : catalog[i].id = itemId
    THEN catalog[CHOOSE i \in 1..Len(catalog) :
                     catalog[i].id = itemId /\ \A j \in 1..(i - 1) : catalog[j].id # itemId]
    ELSE NULL

\* alreadyPlaced of handleGridDrop: some placed building's id includes the type id.
AlreadyPlaced(itemId) ==
    \E i \in 1..Len(placedBuildings) :
        Includes(IdStr(placedBuildings[i].id), TypeChars(itemId))

\* The drop is refused because the building type is placed already.
DropRefusedAsDuplicate(itemId, isDecoration) ==
    ~isDecoration /\ itemId # "restroom" /\ AlreadyPlaced(itemId)

\* A variant of the drop's test without the overlap test.
DropFitsInGridOnly(item, gridX, gridY) ==
    /\ gridX + item.width <= GRID_SIZE
    /\ gridY + item.height <= GRID_SIZE

\* The drop's own placement test.
DropFits(item, gridX, gridY) ==
    /\ gridX + item.width <= GRID_SIZE
    /\ gridY + item.height <= GRID_SIZE
    /\ ~checkOverlap(gridX, gridY, item.width, item.height, NULL)

\* handleGridDrop: the palette entry itemId is dropped at position p.
handleGridDrop(itemId, p) ==
    /\ loaded
    /\ pending = << >>
    /\ LET building     == FindDef(BUILDINGS, itemId)
           isDecoration == building = NULL
           item         == IF building # NULL THEN building
                           ELSE FindDef(DECORATIONS, itemId)
           gridX        == p.x \div CELL_SIZE
           gridY        == p.y \div CELL_SIZE
       IN  IF item = NULL \/ DropRefusedAsDuplicate(itemId, isDecoration)
              \/ ~DropFits(item, gridX, gridY)
           THEN /\ UNCHANGED << storeVars, idVars, url >>
                /\ last' = [op |-> "drop", out |-> "refused"]
           ELSE IF isDecoration
           THEN /\ nextDecorationId <= MaxId
                /\ EntityCount < MaxEntities
                /\ placedDecorations' =
                       Append(placedDecorations,
                              [id     |-> [t |-> item.id, n |-> nextDecorationId],
                               gridX  |-> gridX, gridY |-> gridY,
                               width  |-> item.width, height |-> item.height])
                /\ nextDecorationId' = nextDecorationId + 1
                /\ assigned' = AssignedWith(placedBuildings, placedDecorations', enclosures)
                /\ url' = UrlOf(placedBuildings, placedDecorations', enclosures)
                /\ UNCHANGED << placedBuildings, enclosures, nextBuildingId,
                                nextEnclosureId >>
                /\ last' = [op |-> "drop", out |-> "added"]
           ELSE /\ nextBuildingId <= MaxId
                /\ EntityCount < MaxEntities
                /\ placedBuildings' =
                       Append(placedBuildings,
                              [id     |-> [t |-> item.id, n |-> nextBuildingId],
                               gridX  |-> gridX, gridY |-> gridY,
                               width  |-> item.width, height |-> item.height])
                /\ nextBuildingId' = nextBuildingId + 1
                /\ assigned' = AssignedWith(placedBuildings', placedDecorations, enclosures)
                /\ url' = UrlOf(placedBuildings', placedDecorations, enclosures)
                /\ UNCHANGED << placedDecorations, enclosures, nextDecorationId,
                                nextEnclosureId >>
                /\ last' = [op |-> "drop", out |-> "added"]
    /\ UNCHANGED << loaded, selectedAnimal, gestureVars, pending, began, fnVars >>

----------------------------------------------------------------------------
(* handleGridMouseDown *)

\* The record written to state.movingItem for the hit entity.
MovingRecord(type, item, point) ==
    [type      |-> type,
     id        |-> item.id,
     data      |-> NULL,
     originalX |-> item.gridX,
     originalY |-> item.gridY,
     offsetX   |-> point.gridX - item.gridX,
     offsetY   |-> point.gridY - item.gridY]

\* The record written to state.resizingEnclosure.
ResizingRecord(edgeDetect) ==
    [id           |-> edgeDetect.enclosure.id,
     data         |-> NULL,
     edge         |-> edgeDetect.edge,
     originalData |-> Geometry(edgeDetect.enclosure)]

\* The body of handleGridMouseDown at position p.  The handler does not look
\* at the gesture fields, nor at the dialogs: it runs the same whether or not
\* a gesture is under way or a confirmation is awaited.
DownEvent(p) ==
    /\ loaded
    /\ LET point      == getGridPoint(p)
           edgeDetect == detectEnclosureEdge(getPrecisePoint(p))
       IN  IF edgeDetect # NULL
           THEN /\ resizingEnclosure' = ResizingRecord(edgeDetect)
                /\ moveStartPos' = p
                /\ UNCHANGED << drawing, movingItem >>
                /\ last' = [op |-> "down", out |-> "resize"]
                /\ began' = [began EXCEPT !.resizing = p]
           ELSE IF HitTargets(p) # {}
           THEN \E target \in HitTargets(p) :
                   IF target.class = "enclosure"
                   THEN LET enclosure == FindById(enclosures, target.id)
                        IN  /\ movingItem' = MovingRecord("enclosure", enclosure, point)
                            /\ moveStartPos' = p
                            /\ UNCHANGED << drawing, resizingEnclosure >>
                            /\ last' = [op |-> "down", out |-> "move"]
                            /\ began' = [began EXCEPT !.moving = p]
                   ELSE LET building == FindById(placedBuildings, target.id)
                            item     == IF building # NULL THEN building
                                        ELSE FindById(placedDecorations, target.id)
                            itemType == IF building # NULL THEN "building"
                                        ELSE "decoration"
                        IN  /\ movingItem' = MovingRecord(itemType, item, point)
                            /\ moveStartPos' = p
                            /\ UNCHANGED << drawing, resizingEnclosure >>
                            /\ last' = [op |-> "down", out |-> "move"]
                            /\ began' = [began EXCEPT !.moving = p]
           ELSE IF selectedAnimal = NoAnimal
           THEN /\ UNCHANGED << gestureVars, began >>
                /\ last' = [op |-> "down", out |-> "none"]
           ELSE /\ drawing' = [startX   |-> point.gridX, startY   |-> point.gridY,
                               currentX |-> point.gridX, currentY |-> point.gridY]
                /\ UNCHANGED << movingItem, moveStartPos, resizingEnclosure, began >>
                /\ last' = [op |-> "down", out |-> "draw"]
    /\ UNCHANGED << loaded, url, selectedAnimal, storeVars, idVars, pending, fnVars >>

\* handleGridMouseDown as the listener of the grid: the element of an open
\* dialog lies over the page (a click beside its content lands on it).
handleGridMouseDown(p) == pending = << >> /\ DownEvent(p)

----------------------------------------------------------------------------
(* handleGridMouseMove *)

\* A variant of the candidate: a dragged left or top side carries the whole
\* rectangle along, its width and height kept.
ResizeCandidateShifted(enc, edge, point) ==
    LET xLeft == IF edge.left THEN Min(point.gridX, enc.gridX + enc.width - 1)
                 ELSE enc.gridX
        yTop  == IF edge.top THEN Min(point.gridY, enc.gridY + enc.height - 1)
                 ELSE enc.gridY
        newX  == Max(0, Min(xLeft, GRID_SIZE - 1))
        newY  == Max(0, Min(yTop, GRID_SIZE - 1))
    IN  [gridX  |-> newX,
         gridY  |-> newY,
         width  |-> IF edge.right THEN Max(1, point.gridX - enc.gridX + 1) ELSE enc.width,
         height |-> IF edge.bottom THEN Max(1, point.gridY - enc.gridY + 1) ELSE enc.height]

\* The candidate rectangle of a resize: the edges being dragged follow the
\* pointer's cell, then the rectangle is constrained to the grid.
ResizeCandidate(enc, edge, point) ==
    LET wRight   == IF edge.right THEN Max(1, point.gridX - enc.gridX + 1) ELSE enc.width
        oldRight == enc.gridX + enc.width
        xLeft    == IF edge.left THEN Min(point.gridX, oldRight - 1) ELSE enc.gridX
        wLeft    == IF edge.left THEN oldRight - xLeft ELSE wRight
        hBottom  == IF edge.bottom THEN Max(1, point.gridY - enc.gridY + 1) ELSE enc.height
        oldBottom == enc.gridY + enc.height
        yTop     == IF edge.top THEN Min(point.gridY, oldBottom - 1) ELSE enc.gridY
        hTop     == IF edge.top THEN oldBottom - yTop ELSE hBottom
        newX     == Max(0, Min(xLeft, GRID_SIZE - 1))
        newY     == Max(0, Min(yTop, GRID_SIZE - 1))
    IN  [gridX  |-> newX,
         gridY  |-> newY,
         width  |-> Max(1, Min(wLeft, GRID_SIZE - newX)),
         height |-> Max(1, Min(hTop, GRID_SIZE - newY))]

\* A variant: the candidate is written without the overlap test.
ResizeAppliesAlways(cand, encId) == TRUE

\* A variant: after a rejected candidate no later candidate is written.
ResizeAppliesUntilRejected(cand, encId) ==
    /\ ~checkOverlap(cand.gridX, cand.gridY, cand.width, cand.height, encId)
    /\ ~(last.op = "move" /\ last.out = "rejected")

\* The resize candidate is written: it overlaps nothing but the enclosure itself.
ResizeApplies(cand, encId) ==
    ~checkOverlap(cand.gridX, cand.gridY, cand.width, cand.height, encId)

\* A variant of the position of a move event without the upper clamp.
MovePositionLowClampOnly(item, moving, point) ==
    [gridX  |-> Max(0, point.gridX - moving.offsetX),
     gridY  |-> Max(0, point.gridY - moving.offsetY),
     width  |-> item.width,
     height |-> item.height]

\* The position a move event gives the moved item: the pointer's cell less
\* the grab offset, constrained to the grid.
MovePosition(item, moving, point) ==
    [gridX  |-> Max(0, Min(point.gridX - moving.offsetX, GRID_SIZE - item.width)),
     gridY  |-> Max(0, Min(point.gridY - moving.offsetY, GRID_SIZE - item.height)),
     width  |-> item.width,
     height |-> item.height]

\* The resizing branch of handleGridMouseMove.
MoveWhileResizing(p) ==
    LET resize == resizingEnclosure
        enc    == ObjectOf("enclosure", resize)
        cand   == ResizeCandidate(enc, resize.edge, getGridPoint(p))
        st     == StoreAfterWrite("enclosure", resize, cand)
    IN  /\ resizingEnclosure # NULL
        /\ IF ResizeApplies(cand, enc.id)
           THEN /\ placedBuildings' = st.b
                /\ placedDecorations' = st.d
                /\ enclosures' = st.e
                /\ resizingEnclosure' = GestureAfterWrite(resize, cand)
                /\ url' = UrlOf(st.b, st.d, st.e)
                /\ last' = [op |-> "move", out |-> "resized", at |-> p]
           ELSE /\ UNCHANGED << storeVars, resizingEnclosure, url >>
                /\ last' = [op |-> "move", out |-> "rejected", at |-> p]
        /\ UNCHANGED << drawing, movingItem, moveStartPos >>

\* The moving branch of handleGridMouseMove.
MoveWhileMoving(p) ==
    LET moving == movingItem
        item   == ObjectOf(moving.type, moving)
        pos    == MovePosition(item, moving, getGridPoint(p))
        st     == StoreAfterWrite(moving.type, moving, pos)
    IN  /\ resizingEnclosure = NULL
        /\ movingItem # NULL
        /\ IF isNearSVG(p)
           THEN /\ placedBuildings' = st.b
                /\ placedDecorations' = st.d
                /\ enclosures' = st.e
                /\ movingItem' = GestureAfterWrite(moving, pos)
                /\ last' = [op |-> "move", out |-> "moved"]
           ELSE /\ UNCHANGED << storeVars, movingItem >>
                /\ last' = [op |-> "move", out |-> "frozen"]
        /\ UNCHANGED << drawing, moveStartPos, resizingEnclosure, url >>

\* The drawing branch of handleGridMouseMove.
MoveWhileDrawing(p) ==
    /\ resizingEnclosure = NULL
    /\ movingItem = NULL
    /\ drawing # NULL
    /\ drawing' = [drawing EXCEPT !.currentX = getGridPoint(p).gridX,
                                  !.currentY = getGridPoint(p).gridY]
    /\ last' = [op |-> "move", out |-> "drawing"]
    /\ UNCHANGED << storeVars, movingItem, moveStartPos, resizingEnclosure, url >>

\* No gesture: the handler only sets the cursor.
MoveWhileIdle(p) ==
    /\ resizingEnclosure = NULL
    /\ movingItem = NULL
    /\ drawing = NULL
    /\ last' = [op |-> "move", out |-> "hover"]
    /\ UNCHANGED << storeVars, gestureVars, url >>

\* The body of handleGridMouseMove at position p.
MoveEvent(p) ==
    /\ loaded
    /\ \/ MoveWhileResizing(p)
       \/ MoveWhileMoving(p)
       \/ MoveWhileDrawing(p)
       \/ MoveWhileIdle(p)
    /\ UNCHANGED << loaded, selectedAnimal, idVars, pending, began, fnVars >>

\* handleGridMouseMove as the listener of the grid, under an open dialog.
handleGridMouseMove(p) == pending = << >> /\ MoveEvent(p)

----------------------------------------------------------------------------
(* handleGridMouseUp *)

\* A variant: the item stays where the drag left it.
MoveFinalPositionKept(item, moving) ==
    [gridX |-> item.gridX, gridY |-> item.gridY,
     width |-> item.width, height |-> item.height]

\* The position handleGridMouseUp leaves a dragged item at: its own when it
\* lies in the grid and overlaps nothing else, the original one otherwise.
MoveFinalPosition(item, moving) ==
    IF FitsInGrid(item.gridX, item.gridY, item.width, item.height)
       /\ ~checkOverlap(item.gridX, item.gridY, item.width, item.height, moving.id)
    THEN [gridX |-> item.gridX, gridY |-> item.gridY,
          width |-> item.width, height |-> item.height]
    ELSE [gridX |-> moving.originalX, gridY |-> moving.originalY,
          width |-> item.width, height |-> item.height]

\* The position a click leaves the item at: the original one.
MoveClickPosition(item, moving) ==
    [gridX |-> moving.originalX, gridY |-> moving.originalY,
     width |-> item.width, height |-> item.height]

\* A variant: a click leaves the enclosure with the geometry it has.
ResizeClickGeometryKept(resize) == Geometry(ObjectOf("enclosure", resize))

\* The geometry a click leaves a resized enclosure with: originalData.
ResizeClickGeometry(resize) == resize.originalData

\* showConfirmDialog: one more dialog on screen, bound to its callback.
ShowConfirmDialog(dialogs, kind, id) ==
    Append(dialogs, [kind |-> kind, id |-> id])

\* The resizing branch of handleGridMouseUp.
UpWhileResizing(p) ==
    LET resize == resizingEnclosure
        enc    == ObjectOf("enclosure", resize)
        geo    == ResizeClickGeometry(resize)
        st     == StoreAfterWrite("enclosure", resize, geo)
    IN  /\ resizingEnclosure # NULL
        /\ IF IsClick(moveStartPos, p)
           THEN /\ placedBuildings' = st.b
                /\ placedDecorations' = st.d
                /\ enclosures' = st.e
                /\ pending' = ShowConfirmDialog(pending, "enclosure", enc.id)
                /\ last' = [op |-> "up",
                            out |-> IF Geometry(enc) = geo THEN "resize-click"
                                    ELSE "resize-click-restored",
                            near |-> ReleasedNear(began.resizing, p)]
           ELSE /\ UNCHANGED << storeVars, pending >>
                /\ last' = [op |-> "up", out |-> "resize-drag",
                            near |-> ReleasedNear(began.resizing, p)]
        /\ began' = [began EXCEPT !.resizing = NULL]
        /\ resizingEnclosure' = NULL
        /\ moveStartPos' = NULL
        /\ UNCHANGED << drawing, movingItem, url, selectedAnimal, nextEnclosureId,
                        assigned >>

\* The moving branch of handleGridMouseUp.
UpWhileMoving(p) ==
    LET moving == movingItem
        item   == ObjectOf(moving.type, moving)
        click  == IsClick(moveStartPos, p)
        pos    == IF click THEN MoveClickPosition(item, moving)
                  ELSE MoveFinalPosition(item, moving)
        st     == StoreAfterWrite(moving.type, moving, pos)
    IN  /\ resizingEnclosure = NULL
        /\ movingItem # NULL
        /\ placedBuildings' = st.b
        /\ placedDecorations' = st.d
        /\ enclosures' = st.e
        /\ IF click
           THEN /\ pending' = ShowConfirmDialog(pending, moving.type, moving.id)
                /\ UNCHANGED url
                /\ last' = [op |-> "up",
                            out |-> IF pos.gridX = item.gridX /\ pos.gridY = item.gridY
                                    THEN "move-click" ELSE "move-click-restored",
                            near |-> ReleasedNear(began.moving, p)]
           ELSE /\ UNCHANGED pending
                /\ url' = UrlOf(st.b, st.d, st.e)
                /\ last' = [op |-> "up",
                            out |-> IF pos.gridX = item.gridX /\ pos.gridY = item.gridY
                                    THEN "move-commit" ELSE "move-revert",
                            near |-> ReleasedNear(began.moving, p)]
        /\ began' = [began EXCEPT !.moving = NULL]
        /\ movingItem' = NULL
        /\ moveStartPos' = NULL
        /\ UNCHANGED << drawing, resizingEnclosure, selectedAnimal, nextEnclosureId,
                        assigned >>

\* The rectangle spanned by a drawing.
DrawnRectangle(d) ==
    [gridX  |-> Min(d.startX, d.currentX),
     gridY  |-> Min(d.startY, d.currentY),
     width  |-> Abs(d.currentX - d.startX) + 1,
     height |-> Abs(d.currentY - d.startY) + 1]

\* A variant: the drawn rectangle is handed to addEnclosure untested.
DrawAcceptedAlways(rect) == TRUE

\* The drawn rectangle is handed to addEnclosure.
DrawAccepted(rect) ==
    /\ rect.width > 0
    /\ rect.height > 0
    /\ ~checkOverlap(rect.gridX, rect.gridY, rect.width, rect.height, NULL)

\* addEnclosure adds an enclosure: an animal is selected and it has none yet.
AddEnclosureAdds == 
    /\ selectedAnimal # NoAnimal
    /\ selectedAnimal \notin UsedAnimals(enclosures)

\* A variant of the drawing branch that cleans up only after addEnclosure.
UpWhileDrawingNoCleanUp(p) ==
    LET rect == DrawnRectangle(drawing)
    IN  /\ resizingEnclosure = NULL
        /\ movingItem = NULL
        /\ drawing # NULL
        /\ IF DrawAccepted(rect) /\ AddEnclosureAdds
           THEN /\ nextEnclosureId <= MaxId
                /\ EntityCount < MaxEntities
                /\ enclosures' =
                       Append(enclosures,
                              [id     |-> [t |-> "enclosure", n |-> nextEnclosureId],
                               gridX  |-> rect.gridX, gridY  |-> rect.gridY,
                               width  |-> rect.width, height |-> rect.height,
                               animal |-> selectedAnimal])
                /\ nextEnclosureId' = nextEnclosureId + 1
                /\ assigned' = AssignedWith(placedBuildings, placedDecorations, enclosures')
                /\ selectedAnimal' = RenderAnimalList(enclosures', selectedAnimal)
                /\ url' = UrlOf(placedBuildings, placedDecorations, enclosures')
                /\ last' = [op |-> "up", out |-> "draw-added"]
                /\ drawing' = NULL
           ELSE /\ UNCHANGED << enclosures, nextEnclosureId, assigned, selectedAnimal,
                                url, drawing >>
                /\ last' = [op |-> "up", out |-> "draw-rejected"]
        /\ UNCHANGED << placedBuildings, placedDecorations, movingItem,
                        moveStartPos, resizingEnclosure, pending, began >>

\* The drawing branch of handleGridMouseUp, with the addEnclosure it calls.
UpWhileDrawing(p) ==
    LET rect == DrawnRectangle(drawing)
    IN  /\ resizingEnclosure = NULL
        /\ movingItem = NULL
        /\ drawing # NULL
        /\ IF DrawAccepted(rect) /\ AddEnclosureAdds
           THEN /\ nextEnclosureId <= MaxId
                /\ EntityCount < MaxEntities
                /\ enclosures' =
                       Append(enclosures,
                              [id     |-> [t |-> "enclosure", n |-> nextEnclosureId],
                               gridX  |-> rect.gridX, gridY  |-> rect.gridY,
                               width  |-> rect.width, height |-> rect.height,
                               animal |-> selectedAnimal])
                /\ nextEnclosureId' = nextEnclosureId + 1
                /\ assigned' = AssignedWith(placedBuildings, placedDecorations, enclosures')
                /\ selectedAnimal' = RenderAnimalList(enclosures', selectedAnimal)
                /\ url' = UrlOf(placedBuildings, placedDecorations, enclosures')
                /\ last' = [op |-> "up", out |-> "draw-added"]
           ELSE /\ UNCHANGED << enclosures, nextEnclosureId, assigned, selectedAnimal, url >>
                /\ last' = [op |-> "up", out |-> "draw-rejected"]
        /\ drawing' = NULL
        /\ UNCHANGED << placedBuildings, placedDecorations, movingItem,
                        moveStartPos, resizingEnclosure, pending, began >>

\* No gesture: handleGridMouseUp returns at once.
UpWhileIdle(p) ==
    /\ resizingEnclosure = NULL
    /\ movingItem = NULL
    /\ drawing = NULL
    /\ last' = [op |-> "up", out |-> "none"]
    /\ UNCHANGED << storeVars, gestureVars, url, selectedAnimal, nextEnclosureId,
                    assigned, pending, began >>

\* handleGridMouseUp at position p.  The listener is on the document: the
\* event also arrives while a dialog is open.
handleGridMouseUp(p) ==
    /\ loaded
    /\ \/ UpWhileResizing(p)
       \/ UpWhileMoving(p)
       \/ UpWhileDrawing(p)
       \/ UpWhileIdle(p)
    /\ UNCHANGED << loaded, nextBuildingId, nextDecorationId, fnVars >>

----------------------------------------------------------------------------
(* Deletions, selection, start over and the confirmation dialog *)

\* state.movingItem after the entities of the ids in gone left the collection
\* of the given type.
MovingAfterRemoval(type, gone) ==
    IF movingItem # NULL /\ movingItem.type = type
    THEN Detached(type, movingItem, gone) ELSE movingItem

\* A variant of the filter that takes the first entity when none has the id.
WithoutIdOrFirst(seq, id) ==
    IF \E i \in 1..Len(seq) : seq[i].id = id
    THEN SelectSeq(seq, LAMBDA e : e.id # id)
    ELSE IF seq = << >> THEN seq ELSE Tail(seq)

\* Array.prototype.filter(e => e.id !== id)
WithoutId(seq, id) == SelectSeq(seq, LAMBDA e : e.id # id)

\* deleteBuilding(id)
deleteBuilding(id) ==
    /\ placedBuildings' = WithoutId(placedBuildings, id)
    /\ movingItem' = MovingAfterRemoval("building", { id })
    /\ url' = UrlOf(placedBuildings', placedDecorations, enclosures)
    /\ UNCHANGED << placedDecorations, enclosures, selectedAnimal, idVars,
                    drawing, moveStartPos, resizingEnclosure >>

\* deleteDecoration(id)
deleteDecoration(id) ==
    /\ placedDecorations' = WithoutId(placedDecorations, id)
    /\ movingItem' = MovingAfterRemoval("decoration", { id })
    /\ url' = UrlOf(placedBuildings, placedDecorations', enclosures)
    /\ UNCHANGED << placedBuildings, enclosures, selectedAnimal, idVars,
                    drawing, moveStartPos, resizingEnclosure >>

\* deleteEnclosure(id), with the renderAnimalList it calls.
deleteEnclosure(id) ==
    /\ enclosures' = WithoutId(enclosures, id)
    /\ movingItem' = MovingAfterRemoval("enclosure", { id })
    /\ resizingEnclosure' = Detached("enclosure", resizingEnclosure, { id })
    /\ selectedAnimal' = RenderAnimalList(enclosures', selectedAnimal)
    /\ url' = UrlOf(placedBuildings, placedDecorations, enclosures')
    /\ UNCHANGED << placedBuildings, placedDecorations, idVars, drawing, moveStartPos >>

\* isUsed of renderBuildingList: the delete button of a building entry is shown.
BuildingIsUsed(typeId) ==
    \E i \in 1..Len(placedBuildings) :
        Includes(Split(IdStr(placedBuildings[i].id), "-")[1], TypeChars(typeId))

\* deleteBuildingByType, from the palette's delete button of entry typeId.
deleteBuildingByType(typeId) ==
    /\ loaded
    /\ pending = << >>
    /\ typeId # "restroom"
    /\ BuildingIsUsed(typeId)
    /\ LET hit == { i \in 1..Len(placedBuildings) :
                      Includes(IdStr(placedBuildings[i].id), TypeChars(typeId)) }
       IN  IF hit # {}
           THEN LET k == CHOOSE i \in hit : \A j \in hit : i <= j
                IN  deleteBuilding(placedBuildings[k].id)
           ELSE UNCHANGED << storeVars, gestureVars, url, selectedAnimal, idVars >>
    /\ last' = [op |-> "delete", out |-> "building"]
    /\ UNCHANGED << loaded, pending, began, fnVars >>

IsRestroom(b) == StartsWith(IdStr(b.id), TypeChars("restroom") \o << "-" >>)

\* deleteAllRestrooms, from the palette's delete button of the restroom entry.
deleteAllRestrooms ==
    /\ loaded
    /\ pending = << >>
    /\ \E i \in 1..Len(placedBuildings) : IsRestroom(placedBuildings[i])
    /\ placedBuildings' = SelectSeq(placedBuildings, LAMBDA b : ~IsRestroom(b))
    /\ movingItem' = MovingAfterRemoval("building",
                         { b.id : b \in { c \in Range(placedBuildings) : IsRestroom(c) } })
    /\ url' = UrlOf(placedBuildings', placedDecorations, enclosures)
    /\ last' = [op |-> "delete", out |-> "restrooms"]
    /\ UNCHANGED << placedDecorations, enclosures, selectedAnimal, idVars, drawing,
                    moveStartPos, resizingEnclosure, loaded, pending, began, fnVars >>

\* A variant: every decoration counts as one of the type.
IsDecorationOfAny(d, typeId) == TRUE

IsDecorationOf(d, typeId) == StartsWith(IdStr(d.id), TypeChars(typeId) \o << "-" >>)

\* deleteAllDecorationType, from the palette's delete button of entry typeId.
deleteAllDecorationType(typeId) ==
    /\ loaded
    /\ pending = << >>
    /\ \E i \in 1..Len(placedDecorations) : IsDecorationOf(placedDecorations[i], typeId)
    /\ placedDecorations' =
           SelectSeq(placedDecorations, LAMBDA d : ~IsDecorationOf(d, typeId))
    /\ movingItem' = MovingAfterRemoval("decoration",
                         { d.id : d \in { c \in Range(placedDecorations) :
                                              IsDecorationOf(c, typeId) } })
    /\ url' = UrlOf(placedBuildings, placedDecorations', enclosures)
    /\ last' = [op |-> "delete", out |-> "decorations"]
    /\ UNCHANGED << placedBuildings, enclosures, selectedAnimal, idVars, drawing,
                    moveStartPos, resizingEnclosure, loaded, pending, began, fnVars >>

\* deleteEnclosureByAnimal, from the delete button of a used animal's card.
deleteEnclosureByAnimal(animalId) ==
    /\ loaded
    /\ pending = << >>
    /\ animalId \in UsedAnimals(enclosures)
    /\ LET k == CHOOSE i \in 1..Len(enclosures) :
                    /\ enclosures[i].animal = animalId
                    /\ \A j \in 1..(i - 1) : enclosures[j].animal # animalId
       IN  deleteEnclosure(enclosures[k].id)
    /\ last' = [op |-> "delete", out |-> "enclosure"]
    /\ UNCHANGED << loaded, pending, began, fnVars >>

\* selectAnimal, from a click on the card of an animal that is not used.
selectAnimal(animalId) ==
    /\ loaded
    /\ pending = << >>
    /\ animalId \notin UsedAnimals(enclosures)
    /\ selectedAnimal' = SelectOf(enclosures, selectedAnimal, animalId)
    /\ last' = [op |-> "select", out |-> animalId]
    /\ UNCHANGED << loaded, url, storeVars, gestureVars, idVars, pending, began, fnVars >>

\* The body of startOver: it asks for confirmation.
StartOverEvent ==
    /\ loaded
    /\ pending' = ShowConfirmDialog(pending, "startOver", NULL)
    /\ last' = [op |-> "startOver", out |-> "asked"]
    /\ UNCHANGED << loaded, url, selectedAnimal, storeVars, gestureVars, idVars, began, fnVars >>

\* startOver from its button, under an open dialog.
startOver == pending = << >> /\ StartOverEvent

\* The callback startOver hands to the dialog.
StartOverConfirmed ==
    /\ placedBuildings' = << >>
    /\ placedDecorations' = << >>
    /\ enclosures' = << >>
    /\ nextEnclosureId' = 1
    /\ selectedAnimal' = RenderAnimalList(<< >>, NoAnimal)
    /\ url' = << >>
    /\ movingItem' =
           IF movingItem = NULL THEN NULL
           ELSE Detached(movingItem.type, movingItem, { movingItem.id })
    /\ resizingEnclosure' =
           IF resizingEnclosure = NULL THEN NULL
           ELSE Detached("enclosure", resizingEnclosure, { resizingEnclosure.id })
    /\ UNCHANGED << nextBuildingId, nextDecorationId, assigned, drawing, moveStartPos >>

\* The Yes button of the dialog on top: the dialog goes and its callback runs.
ConfirmYes ==
    /\ pending # << >>
    /\ LET dialog == pending[Len(pending)]
       IN  CASE dialog.kind = "enclosure"  -> deleteEnclosure(dialog.id)
             [] dialog.kind = "building"   -> deleteBuilding(dialog.id)
             [] dialog.kind = "decoration" -> deleteDecoration(dialog.id)
             [] dialog.kind = "startOver"  -> StartOverConfirmed
    /\ pending' = SubSeq(pending, 1, Len(pending) - 1)
    /\ last' = [op |-> "confirm", out |-> pending[Len(pending)].kind]
    /\ UNCHANGED << loaded, began, fnVars >>

\* The No button, or a click beside the dialog: the dialog goes.
ConfirmNo ==
    /\ pending # << >>
    /\ pending' = SubSeq(pending, 1, Len(pending) - 1)
    /\ last' = [op |-> "dismiss", out |-> pending[Len(pending)].kind]
    /\ UNCHANGED << loaded, url, selectedAnimal, storeVars, gestureVars, idVars, began, fnVars >>

----------------------------------------------------------------------------
(* The program *)

GestureActive == drawing # NULL \/ movingItem # NULL \/ resizingEnclosure # NULL

AllEntities ==
    Range(placedBuildings) \cup Range(placedDecorations) \cup Range(enclosures)

\* The rectangle's first and last column and row are ones the pointer visits.
InScope(e, positions) ==
    LET cols == { q.x \div CELL_SIZE : q \in positions }
        rows == { q.y \div CELL_SIZE : q \in positions }
    IN  /\ e.gridX \in cols
        /\ e.gridX + e.width - 1 \in cols
        /\ e.gridY \in rows
        /\ e.gridY + e.height - 1 \in rows

\* The page's buttons and the palette, used between gestures; a palette
\* entry is dropped at one of positions.
PageEvents(positions) ==
    \/ \E itemId \in PaletteIds, p \in positions :
          ~GestureActive /\ handleGridDrop(itemId, p)
    \/ \E i \in 1..Len(BUILDINGS) :
          ~GestureActive /\ deleteBuildingByType(BUILDINGS[i].id)
    \/ ~GestureActive /\ deleteAllRestrooms
    \/ \E i \in 1..Len(DECORATIONS) :
          ~GestureActive /\ deleteAllDecorationType(DECORATIONS[i].id)
    \/ \E i \in 1..Len(ANIMALS) :
          ~GestureActive /\ deleteEnclosureByAnimal(ANIMALS[i].id)
    \/ \E i \in 1..Len(ANIMALS) : ~GestureActive /\ selectAnimal(ANIMALS[i].id)
    \/ ~GestureActive /\ startOver

\* The pointer listeners of setupEventListeners, with the pointer at one of
\* positions.  A down event during a gesture (a second button, a second
\* finger) arrives at one of nested.  A move event is followed when the
\* rectangle it writes stays on the cells the pointer visits.
PointerEvents(positions, nested) ==
    \/ \E p \in IF GestureActive THEN nested ELSE positions : handleGridMouseDown(p)
    \/ \E p \in positions \cup OutsidePositions :
          /\ handleGridMouseMove(p)
          /\ \A e \in AllEntities' : e \in AllEntities \/ InScope(e, positions)
    \/ \E p \in positions \cup OutsidePositions : handleGridMouseUp(p)

\* The buttons of the confirmation dialog.
DialogEvents == ConfirmYes \/ ConfirmNo

\* The page in use, one gesture at a time.
Next ==
    \/ LoadFromURL
    \/ PageEvents(RowPositions)
    \/ PointerEvents(RowPositions, { })
    \/ DialogEvents

Spec == Init /\ [][Next]_vars

\* The page opened from a link and used with the pointer alone, down events
\* during a gesture included.
NextNested ==
    \/ LoadFromURL
    \/ PointerEvents(RowPositions, RowNestedPositions)
    \/ DialogEvents

SpecNested == Init /\ [][NextNested]_vars

----------------------------------------------------------------------------
(* The URL codec on its own: encodeZooState applied to a store, and         *)
(* decodeZooState applied to what it returned.                              *)

\* Stores of the codec runs hold at most this many entities.
MaxRecords == 2

\* Coordinates of the codec runs: the least and the greatest single digit.
CodecCoords == { 0, 35 }

\* Sizes of the enclosures of the codec runs.
CodecSizes == { << 1, 35 >>, << 35, 1 >> }

CodecBuildings ==
    { [id |-> [t |-> BUILDINGS[i].id, n |-> 0], gridX |-> x, gridY |-> y,
       width |-> BUILDINGS[i].width, height |-> BUILDINGS[i].height] :
        i \in 1..Len(BUILDINGS), x \in CodecCoords, y \in CodecCoords }

CodecDecorations ==
    { [id |-> [t |-> DECORATIONS[i].id, n |-> 0], gridX |-> x, gridY |-> y,
       width |-> DECORATIONS[i].width, height |-> DECORATIONS[i].height] :
        i \in 1..Len(DECORATIONS), x \in CodecCoords, y \in CodecCoords }

CodecEnclosures ==
    { [id |-> [t |-> "enclosure", n |-> 0], gridX |-> x, gridY |-> y,
       width |-> wh[1], height |-> wh[2], animal |-> ANIMALS[i].id] :
        i \in 1..Len(ANIMALS), x \in CodecCoords, y \in CodecCoords,
        wh \in CodecSizes }

\* The entities of seq with the ids the counters hand out: 1, 2, ...
Numbered(seq) ==
    [k \in 1..Len(seq) |-> [seq[k] EXCEPT !.id = [t |-> seq[k].id.t, n |-> k]]]

\* A store of one building: the third entry of the catalog, at (5,5).
CodecExample ==
    [b |-> << [id |-> [t |-> BUILDINGS[3].id, n |-> 1], gridX |-> 5, gridY |-> 5,
               width |-> BUILDINGS[3].width, height |-> BUILDINGS[3].height] >>,
     d |-> << >>,
     e |-> << >>]

\* The stores of the codec runs.
CodecStores ==
    { CodecExample } \cup
    UNION { { [b |-> Numbered(bs), d |-> Numbered(ds), e |-> Numbered(es)] :
                bs \in [1..n[1] -> CodecBuildings],
                ds \in [1..n[2] -> CodecDecorations],
                es \in [1..n[3] -> CodecEnclosures] } :
            n \in { m \in (0..MaxRecords) \X (0..MaxRecords) \X (0..MaxRecords) :
                       m[1] + m[2] + m[3] <= MaxRecords } }

InitCodec ==
    /\ loaded = TRUE
    /\ url = << >>
    /\ selectedAnimal = NoAnimal
    /\ \E st \in CodecStores :
          /\ placedBuildings = st.b
          /\ placedDecorations = st.d
          /\ enclosures = st.e
    /\ drawing = NULL
    /\ movingItem = NULL
    /\ moveStartPos = NULL
    /\ resizingEnclosure = NULL
    /\ nextEnclosureId = Len(enclosures) + 1
    /\ nextBuildingId = Len(placedBuildings) + 1
    /\ nextDecorationId = Len(placedDecorations) + 1
    /\ assigned = SuffixesOf(placedBuildings, placedDecorations, enclosures)
    /\ pending = << >>
    /\ last = [op |-> "init", out |-> "none"]
    /\ began = [moving |-> NULL, resizing |-> NULL]
    /\ probe = NULL
    /\ result = NULL

\* encodeZooState() is called; its value is kept in url.
EncodeState ==
    /\ last.op = "init"
    /\ url' = encodeZooState
    /\ last' = [op |-> "encode", out |-> "none"]
    /\ UNCHANGED << loaded, selectedAnimal, storeVars, gestureVars, idVars, pending,
                    began, fnVars >>

\* decodeZooState is called with that value.
DecodeUrl ==
    /\ last.op = "encode"
    /\ result' = decodeZooState(url)
    /\ last' = [op |-> "decode", out |-> "none"]
    /\ UNCHANGED << loaded, url, selectedAnimal, storeVars, gestureVars, idVars,
                    pending, began, probe >>

NextCodec == EncodeState \/ DecodeUrl

SpecCodec == InitCodec /\ [][NextCodec]_vars

----------------------------------------------------------------------------
(* checkOverlap on its own: one stored entity, one rectangle to test.       *)

\* Coordinates 0..MaxCoord and sides 1..MaxSide of the rectangles.
MaxCoord == 2

MaxSide == 2

Rectangles ==
    { [gridX |-> x, gridY |-> y, width |-> w, height |-> h] :
        x \in 0..MaxCoord, y \in 0..MaxCoord, w \in 1..MaxSide, h \in 1..MaxSide }

InitOverlap ==
    /\ loaded = TRUE
    /\ url = << >>
    /\ selectedAnimal = NoAnimal
    /\ \E r \in Rectangles, kind \in { "building", "decoration", "enclosure" } :
          /\ placedBuildings =
                 IF kind = "building"
                 THEN << [id |-> [t |-> "restroom", n |-> 1], gridX |-> r.gridX,
                          gridY |-> r.gridY, width |-> r.width, height |-> r.height] >>
                 ELSE << >>
          /\ placedDecorations =
                 IF kind = "decoration"
                 THEN << [id |-> [t |-> "tree", n |-> 1], gridX |-> r.gridX,
                          gridY |-> r.gridY, width |-> r.width, height |-> r.height] >>
                 ELSE << >>
          /\ enclosures =
                 IF kind = "enclosure"
                 THEN << [id |-> [t |-> "enclosure", n |-> 1], gridX |-> r.gridX,
                          gridY |-> r.gridY, width |-> r.width, height |-> r.height,
                          animal |-> ANIMALS[1].id] >>
                 ELSE << >>
    /\ drawing = NULL
    /\ movingItem = NULL
    /\ moveStartPos = NULL
    /\ resizingEnclosure = NULL
    /\ nextEnclosureId = Len(enclosures) + 1
    /\ nextBuildingId = Len(placedBuildings) + 1
    /\ nextDecorationId = Len(placedDecorations) + 1
    /\ assigned = SuffixesOf(placedBuildings, placedDecorations, enclosures)
    /\ pending = << >>
    /\ last = [op |-> "init", out |-> "none"]
    /\ began = [moving |-> NULL, resizing |-> NULL]
    /\ probe \in Rectangles
    /\ result = NULL

\* checkOverlap is called with the rectangle and no excludeId.
CheckProbe ==
    /\ last.op = "init"
    /\ result' = checkOverlap(probe.gridX, probe.gridY, probe.width, probe.height, NULL)
    /\ last' = [op |-> "checkOverlap", out |-> "none"]
    /\ UNCHANGED << loaded, url, selectedAnimal, storeVars, gestureVars, idVars,
                    pending, began, probe >>

NextOverlap == CheckProbe

SpecOverlap == InitOverlap /\ [][NextOverlap]_vars

----------------------------------------------------------------------------
(* checkOverlap with an excludeId, over a store of up to three entities.     *)

\* The rectangles of these runs lie in one row.
QueryRectangles ==
    { [gridX |-> x, gridY |-> 0, width |-> w, height |-> 1] :
        x \in 0..MaxCoord, w \in 1..MaxSide }

\* A collection of these runs: empty or the one entity of the given id.
QueryCollections(id, extra) ==
    { << >> } \cup { << [id |-> id, gridX |-> r.gridX, gridY |-> r.gridY,
                          width |-> r.width, height |-> r.height] @@ extra >> :
                      r \in QueryRectangles }

\* The values of excludeId: none, or the id of an entity of either collection.
QueryExcludeIds ==
    { NULL, [t |-> "restroom", n |-> 1], [t |-> "tree", n |-> 1],
      [t |-> "enclosure", n |-> 1] }

InitQuery ==
    /\ loaded = TRUE
    /\ url = << >>
    /\ selectedAnimal = NoAnimal
    /\ placedBuildings \in QueryCollections([t |-> "restroom", n |-> 1], << >>)
    /\ placedDecorations \in QueryCollections([t |-> "tree", n |-> 1], << >>)
    /\ enclosures \in QueryCollections([t |-> "enclosure", n |-> 1],
                                       [animal |-> ANIMALS[1].id])
    /\ drawing = NULL
    /\ movingItem = NULL
    /\ moveStartPos = NULL
    /\ resizingEnclosure = NULL
    /\ nextEnclosureId = Len(enclosures) + 1
    /\ nextBuildingId = Len(placedBuildings) + 1
    /\ nextDecorationId = Len(placedDecorations) + 1
    /\ assigned = SuffixesOf(placedBuildings, placedDecorations, enclosures)
    /\ pending = << >>
    /\ last = [op |-> "init", out |-> "none"]
    /\ began = [moving |-> NULL, resizing |-> NULL]
    /\ \E r \in QueryRectangles, x \in QueryExcludeIds :
          probe = [gridX |-> r.gridX, gridY |-> r.gridY, width |-> r.width,
                   height |-> r.height, excludeId |-> x]
    /\ result = NULL

\* checkOverlap is called with the rectangle and the excludeId.
CheckQuery ==
    /\ last.op = "init"
    /\ result' = checkOverlap(probe.gridX, probe.gridY, probe.width, probe.height,
                              probe.excludeId)
    /\ last' = [op |-> "query", out |-> "none"]
    /\ UNCHANGED << loaded, url, selectedAnimal, storeVars, gestureVars, idVars,
                    pending, began, probe >>

NextQuery == CheckQuery

SpecQuery == InitQuery /\ [][NextQuery]_vars

----------------------------------------------------------------------------
(* Palette drops on their own: every drop position the handler accepts an    *)
(* event for, the ones left of, above and right of the grid included.        *)

\* Pointer positions of the drop events: one cell left of the grid, its
\* first two columns, its last column and one cell right of it; one row above
\* the grid and its first row.
DropPositions ==
    { [x |-> x, y |-> y] : x \in { -10, 10, 30, 590, 610 }, y \in { -10, 10 } }

NextDrop ==
    \/ LoadFromURL
    \/ \E itemId \in PaletteIds, p \in DropPositions : handleGridDrop(itemId, p)

SpecDrop == Init /\ [][NextDrop]_vars

----------------------------------------------------------------------------
(* loadFromURL on strings that are not encodings: a character that is no     *)
(* digit of radix 36 stands inside a full record.                            *)

\* The characters of these strings.
MalformedChars == { "0", "1", "!" }

\* Sections of n records of the given stride, at least one character of
\* which is not a digit.
MalformedSections(n, stride) ==
    { s \in [1..(n * stride) -> MalformedChars] : \E i \in 1..(n * stride) : s[i] = "!" }

\* The strings the page is opened with: a buildings section of up to
\* MaxRecords records, or an enclosures section of one record.
MalformedUrlInputs ==
    UNION { MalformedSections(n, 3) : n \in 1..MaxRecords }
        \cup { << ".", "." >> \o s : s \in MalformedSections(1, 5) }

InitMalformed == InitWith(MalformedUrlInputs)

NextMalformed == LoadFromURL

SpecMalformed == InitMalformed /\ [][NextMalformed]_vars

----------------------------------------------------------------------------
(* decodeZooState on its own, applied to any string of digits and periods.   *)

\* The strings decoded are at most this long.
MaxLen == 8

\* Every string of at most MaxLen characters over two digits and the period.
DecodeInputs ==
    UNION { [1..n -> { "1", "z", "." }] : n \in 0..MaxLen }

InitDecode ==
    /\ loaded = TRUE
    /\ url \in DecodeInputs
    /\ selectedAnimal = NoAnimal
    /\ placedBuildings = << >>
    /\ placedDecorations = << >>
    /\ enclosures = << >>
    /\ drawing = NULL
    /\ movingItem = NULL
    /\ moveStartPos = NULL
    /\ resizingEnclosure = NULL
    /\ nextEnclosureId = 1
    /\ nextBuildingId = 1
    /\ nextDecorationId = 1
    /\ assigned = SuffixesOf(placedBuildings, placedDecorations, enclosures)
    /\ pending = << >>
    /\ last = [op |-> "init", out |-> "none"]
    /\ began = [moving |-> NULL, resizing |-> NULL]
    /\ probe = NULL
    /\ result = NULL

\* decodeZooState is called with the string.
DecodeString ==
    /\ last.op = "init"
    /\ result' = decodeZooState(url)
    /\ last' = [op |-> "decode", out |-> "none"]
    /\ UNCHANGED << loaded, url, selectedAnimal, storeVars, gestureVars, idVars,
                    pending, began, probe >>

NextDecode == DecodeString

SpecDecode == InitDecode /\ [][NextDecode]_vars

----------------------------------------------------------------------------
(* renderEnclosure and updateSummaryTable: what they show of an enclosure.   *)

\* isValidPlacement of renderEnclosure.
IsValidPlacement(enclosure) ==
    /\ FitsInGrid(enclosure.gridX, enclosure.gridY, enclosure.width, enclosure.height)
    /\ ~checkOverlap(enclosure.gridX, enclosure.gridY, enclosure.width,
                     enclosure.height, enclosure.id)

\* A variant: the area alone decides.
MeetsAreaOnly(enclosure, animal) ==
    animal # NULL /\ enclosure.width * enclosure.height >= animal.minArea

\* meetsRequirements of renderEnclosure; animal is what ANIMALS.find gave.
MeetsRequirements(enclosure, animal) ==
    /\ animal # NULL
    /\ enclosure.width * enclosure.height >= animal.minArea
    /\ 2 * (enclosure.width + enclosure.height) >= animal.minPerimeter

\* A variant: the warning is looked at before the placement.
EnclosureClassWarningFirst(enclosure) ==
    IF ~MeetsRequirements(enclosure, At(ANIMALS, FindAnimalIndex(enclosure.animal)))
    THEN "enclosure-warning"
    ELSE IF ~IsValidPlacement(enclosure) THEN "enclosure-invalid"
    ELSE "enclosure"

\* The class renderEnclosure gives the rectangle besides 'enclosure'.
EnclosureClass(enclosure) ==
    IF ~IsValidPlacement(enclosure) THEN "enclosure-invalid"
    ELSE IF ~MeetsRequirements(enclosure, At(ANIMALS, FindAnimalIndex(enclosure.animal)))
    THEN "enclosure-warning"
    ELSE "enclosure"

\* needsWarning of updateSummaryTable, for a row's enclosure and its animal.
NeedsWarning(enclosure, animal) ==
    \/ enclosure.width * enclosure.height < animal.minArea
    \/ 2 * (enclosure.width + enclosure.height) < animal.minPerimeter

\* The enclosures shown: at the left side of the grid or 3 cells from its
\* right side, of four sizes, for either animal.
RenderEnclosures ==
    { [gridX |-> x, gridY |-> 0, width |-> wh[1], height |-> wh[2], animal |-> a] :
        x \in { 0, GRID_SIZE - 3 },
        wh \in { << 4, 3 >>, << 1, 6 >>, << 2, 2 >>, << 1, 1 >> },
        a \in { ANIMALS[i].id : i \in 1..Len(ANIMALS) } }

InitRender ==
    /\ loaded = TRUE
    /\ url = << >>
    /\ selectedAnimal = NoAnimal
    /\ placedBuildings \in
           { << >>, << [id |-> [t |-> "restroom", n |-> 1], gridX |-> 1, gridY |-> 0,
                        width |-> 1, height |-> 1] >> }
    /\ placedDecorations = << >>
    /\ \E es \in UNION { [1..n -> RenderEnclosures] : n \in 1..2 } :
          enclosures = [k \in 1..Len(es) |->
                           [id |-> [t |-> "enclosure", n |-> k]] @@ es[k]]
    /\ drawing = NULL
    /\ movingItem = NULL
    /\ moveStartPos = NULL
    /\ resizingEnclosure = NULL
    /\ nextEnclosureId = Len(enclosures) + 1
    /\ nextBuildingId = Len(placedBuildings) + 1
    /\ nextDecorationId = 1
    /\ assigned = SuffixesOf(placedBuildings, placedDecorations, enclosures)
    /\ pending = << >>
    /\ last = [op |-> "init", out |-> "none"]
    /\ began = [moving |-> NULL, resizing |-> NULL]
    /\ probe = NULL
    /\ result = NULL

\* renderEnclosure(enclosures[i]): the class and meetsRequirements it computes.
renderEnclosure(i) ==
    /\ last.op = "init"
    /\ probe' = i
    /\ result' = [class |-> EnclosureClass(enclosures[i]),
                  meets |-> MeetsRequirements(enclosures[i],
                                At(ANIMALS, FindAnimalIndex(enclosures[i].animal)))]
    /\ last' = [op |-> "render", out |-> "none"]
    /\ UNCHANGED << loaded, url, selectedAnimal, storeVars, gestureVars, idVars,
                    pending, began >>

\* updateSummaryTable: a row per enclosure whose animal is in the catalog,
\* with its warning flag.
updateSummaryTable ==
    /\ last.op = "init"
    /\ result' = [rows |->
                    [i \in { k \in 1..Len(enclosures) :
                               At(ANIMALS, FindAnimalIndex(enclosures[k].animal)) # NULL }
                       |-> NeedsWarning(enclosures[i],
                               At(ANIMALS, FindAnimalIndex(enclosures[i].animal)))]]
    /\ last' = [op |-> "summary", out |-> "none"]
    /\ UNCHANGED << loaded, url, selectedAnimal, storeVars, gestureVars, idVars,
                    pending, began, probe >>

NextRender ==
    \/ \E i \in 1..Len(enclosures) : renderEnclosure(i)
    \/ updateSummaryTable

SpecRender == InitRender /\ [][NextRender]_vars

----------------------------------------------------------------------------
(* The down event while idle: zoos of up to four entities are loaded and one *)
(* down event arrives.                                                       *)

\* The enclosure rectangles of these zoos.
DispatchRectangles ==
    { [gridX |-> 0, gridY |-> 0, width |-> 1, height |-> 1],
      [gridX |-> 0, gridY |-> 0, width |-> 2, height |-> 2],
      [gridX |-> 2, gridY |-> 0, width |-> 1, height |-> 1] }

\* The strings the page is opened with: the encodings of a restroom at (1,0)
\* or none, a tree at (2,0) or none, and a lion enclosure, a zebra enclosure,
\* both or none.
DispatchUrlInputs ==
    { UrlOf(bs, ds, es) :
        bs \in { << >>, << [id |-> [t |-> "restroom", n |-> 1], gridX |-> 1, gridY |-> 0] >> },
        ds \in { << >>, << [id |-> [t |-> "tree", n |-> 1], gridX |-> 2, gridY |-> 0] >> },
        es \in { << >> }
                 \cup { << r @@ [animal |-> a] >> :
                          r \in DispatchRectangles, a \in { "lion", "zebra" } }
                 \cup { << r1 @@ [animal |-> "lion"], r2 @@ [animal |-> "zebra"] >> :
                          r1 \in DispatchRectangles, r2 \in DispatchRectangles } }

\* The pointer positions of the down event: near the left side, in the middle
\* and near the right side of column 0, the middle of columns 1 and 2; near
\* the top and in the middle of row 0, the middle of row 1.
DispatchPositions ==
    { [x |-> x, y |-> y] : x \in { 2, 10, 22, 30, 50 }, y \in { 2, 10, 30 } }

InitDispatch == InitWith(DispatchUrlInputs)

NextDispatch ==
    \/ LoadFromURL
    \/ \E p \in DispatchPositions : ~GestureActive /\ handleGridMouseDown(p)

SpecDispatch == InitDispatch /\ [][NextDispatch]_vars

----------------------------------------------------------------------------
(* Gestures on two rows and columns: the page is used with the pointer alone,  *)
(* one gesture at a time.                                                    *)

\* The pointer positions: the middle of column 0, the line between columns 0
\* and 1 (within EDGE_THRESHOLD of it, on the side of column 1) and the middle
\* of column 1, and the same for the rows.
GesturePositions ==
    { [x |-> x, y |-> y] : x \in { 10, 22, 30 }, y \in { 10, 22, 30 } }

\* The strings the page is opened with: a restroom at (1,0) beside a lion
\* enclosure of one cell at (0,0), and a tree at (1,1) alone.
GestureUrlInputs ==
    { UrlOf(<< [id |-> [t |-> "restroom", n |-> 1], gridX |-> 1, gridY |-> 0] >>,
            << >>,
            << [id |-> [t |-> "enclosure", n |-> 1], gridX |-> 0, gridY |-> 0,
                width |-> 1, height |-> 1, animal |-> "lion"] >>),
      UrlOf(<< >>,
            << [id |-> [t |-> "tree", n |-> 1], gridX |-> 1, gridY |-> 1] >>,
            << >>) }

NextGesture ==
    \/ LoadFromURL
    \/ PointerEvents(GesturePositions, { })
    \/ DialogEvents

SpecGesture == InitWith(GestureUrlInputs) /\ [][NextGesture]_vars

----------------------------------------------------------------------------
(* The delete functions, called with any id on zoos of up to eight entities *)

\* The strings the page is opened with: two restrooms with a shop between
\* them or no building, two trees with a shop between them or no decoration,
\* and no, one or two enclosures, each kind on a row of its own.
DeleteUrlInputs ==
    { UrlOf(bs, ds, es) :
        bs \in { << >>,
                 << [id |-> [t |-> "restroom", n |-> 1], gridX |-> 0, gridY |-> 0],
                    [id |-> [t |-> "shop", n |-> 2], gridX |-> 1, gridY |-> 0],
                    [id |-> [t |-> "restroom", n |-> 3], gridX |-> 2, gridY |-> 0] >> },
        ds \in { << >>,
                 << [id |-> [t |-> "tree", n |-> 1], gridX |-> 0, gridY |-> 1],
                    [id |-> [t |-> "shop", n |-> 2], gridX |-> 1, gridY |-> 1],
                    [id |-> [t |-> "tree", n |-> 3], gridX |-> 2, gridY |-> 1] >> },
        es \in { << >>,
                 << [id |-> [t |-> "enclosure", n |-> 1], gridX |-> 0, gridY |-> 2,
                     width |-> 1, height |-> 1, animal |-> "lion"] >>,
                 << [id |-> [t |-> "enclosure", n |-> 1], gridX |-> 0, gridY |-> 2,
                     width |-> 1, height |-> 1, animal |-> "lion"],
                    [id |-> [t |-> "enclosure", n |-> 2], gridX |-> 1, gridY |-> 2,
                     width |-> 2, height |-> 1, animal |-> "zebra"] >> } }

\* The ids the delete functions are called with: those of the entities above
\* and ids no entity has.
DeleteIds ==
    { [t |-> t, n |-> n] : t \in { "restroom", "shop", "tree", "enclosure" },
                           n \in 1..3 }

\* deleteBuilding, deleteDecoration or deleteEnclosure called with an id, as
\* the callback of a confirmation dialog calls it.
CallDelete(kind, id) ==
    /\ loaded
    /\ CASE kind = "building"   -> deleteBuilding(id)
         [] kind = "decoration" -> deleteDecoration(id)
         [] kind = "enclosure"  -> deleteEnclosure(id)
    /\ last' = [op |-> "call", out |-> kind, id |-> id,
                removed |-> EntityCount - ( Len(placedBuildings') + Len(placedDecorations')
                                              + Len(enclosures') )]
    /\ UNCHANGED << loaded, pending, began, fnVars >>

NextDelete ==
    \/ LoadFromURL
    \/ \E kind \in { "building", "decoration", "enclosure" }, id \in DeleteIds :
          CallDelete(kind, id)
    \/ deleteAllRestrooms
    \/ \E i \in 1..Len(DECORATIONS) : deleteAllDecorationType(DECORATIONS[i].id)

SpecDelete == InitWith(DeleteUrlInputs) /\ [][NextDelete]_vars

----------------------------------------------------------------------------
(* Moving along row 0, between the first and the last columns of the grid *)

\* The pointer positions: the middle of columns 0 and 1 and of the last two
\* columns of the grid.
MovePositions ==
    { [x |-> x, y |-> 10] :
        x \in { 10, 30, (GRID_SIZE - 2) * CELL_SIZE + 10, (GRID_SIZE - 1) * CELL_SIZE + 10 } }

\* The strings the page is opened with: a lion enclosure of two cells at
\* (0,0), alone or with a restroom in the last column.
MoveUrlInputs ==
    { UrlOf(bs, << >>,
            << [id |-> [t |-> "enclosure", n |-> 1], gridX |-> 0, gridY |-> 0,
                width |-> 2, height |-> 1, animal |-> "lion"] >>) :
        bs \in { << >>,
                 << [id |-> [t |-> "restroom", n |-> 1],
                     gridX |-> GRID_SIZE - 1, gridY |-> 0] >> } }

\* The pointer listeners, one gesture at a time, and the dialog.
NextMove ==
    \/ LoadFromURL
    \/ \E p \in MovePositions : ~GestureActive /\ handleGridMouseDown(p)
    \/ \E p \in MovePositions \cup OutsidePositions : handleGridMouseMove(p)
    \/ \E p \in MovePositions \cup OutsidePositions : handleGridMouseUp(p)
    \/ DialogEvents

SpecMove == InitWith(MoveUrlInputs) /\ [][NextMove]_vars

----------------------------------------------------------------------------
(* detectEnclosureEdge on its own, enclosures without width or height       *)
(* included                                                                  *)

\* detectEnclosureEdge at the precise pointer position m.
DetectEdge(m) ==
    /\ loaded
    /\ probe' = m
    /\ result' = detectEnclosureEdge(m)
    /\ last' = [op |-> "detect", out |-> "none"]
    /\ UNCHANGED << loaded, url, selectedAnimal, storeVars, gestureVars, idVars,
                    pending, began >>

\* The pointer is outside, just outside, just inside and well inside the
\* sides of the cells of columns and rows 1 and 2.
NextEdge ==
    \/ LoadFromURL
    \/ \E x \in { 10, 16, 22, 30, 38, 42, 50, 58, 62 },
          y \in { 10, 16, 22, 30, 38, 42, 50 } :
          DetectEdge([x |-> x, y |-> y])

\* The page is opened with a lion enclosure at (1,1), of width 0, 1 or 2 and
\* height 0 or 1, alone or followed by a zebra enclosure of one cell at (2,1).
SpecEdge ==
    /\ InitWith({ UrlOf(<< >>, << >>, es) :
                    es \in UNION {
                        { << [gridX |-> 1, gridY |-> 1, width |-> w, height |-> h,
                              animal |-> "lion"] >>,
                          << [gridX |-> 1, gridY |-> 1, width |-> w, height |-> h,
                              animal |-> "lion"],
                             [gridX |-> 2, gridY |-> 1, width |-> 1, height |-> 1,
                              animal |-> "zebra"] >> } :
                        w \in 0..2, h \in 0..1 } })
    /\ [][NextEdge]_vars

----------------------------------------------------------------------------
(* The page used from an empty zoo, at the right end of row 0: palette      *)
(* drops on the grid, the buttons, and one gesture at a time.               *)

\* The pointer positions on the grid: the middle of column GRID_SIZE - 2, the
\* line between the last two columns (within EDGE_THRESHOLD of it, on the
\* side of the last column), the middle of the last column and the right
\* border of the grid (within EDGE_THRESHOLD of it).
PagePositions ==
    { [x |-> (GRID_SIZE - 2) * CELL_SIZE + dx, y |-> 10] : dx \in { 10, 22, 30, 38 } }

\* Right of the grid: inside the margin of isNearSVG, and beyond it.
PageOutsidePositions ==
    { [x |-> GRID_SIZE * CELL_SIZE + 10, y |-> 10],
      [x |-> GRID_SIZE * CELL_SIZE + NEAR_MARGIN + 10, y |-> 10] }

\* A move event is followed when the rectangle it writes does not start left
\* of the columns the pointer visits (to the right nothing is cut off).
NextPage ==
    \/ LoadFromURL
    \/ PageEvents(PagePositions)
    \/ \E p \in PagePositions : ~GestureActive /\ handleGridMouseDown(p)
    \/ \E p \in PagePositions \cup PageOutsidePositions :
          /\ handleGridMouseMove(p)
          /\ \A e \in AllEntities' : e.gridX >= GRID_SIZE - 2
    \/ \E p \in PagePositions \cup PageOutsidePositions : handleGridMouseUp(p)
    \/ DialogEvents

SpecPage == InitWith({ << >> }) /\ [][NextPage]_vars

----------------------------------------------------------------------------
(* The confirmation as the external collaborator it is for the engine: the  *)
(* callback is kept until it is invoked or dropped, and meanwhile the       *)
(* handlers run for whatever event reaches them.                            *)

\* Confirmations awaited at a time.
MaxDialogs == 2

\* The pointer positions: the middle of column 0 and the line between
\* columns 0 and 1, in row 0.
OpenDialogPositions == { [x |-> 10, y |-> 10], [x |-> 22, y |-> 10] }

NextOpenDialog ==
    \/ LoadFromURL
    \/ \E p \in OpenDialogPositions : ~GestureActive /\ DownEvent(p)
    \/ \E p \in OpenDialogPositions : MoveEvent(p)
    \/ \E p \in OpenDialogPositions :
          Len(pending) < MaxDialogs /\ handleGridMouseUp(p)
    \/ ~GestureActive /\ Len(pending) < MaxDialogs /\ StartOverEvent
    \/ DialogEvents

SpecOpenDialog == InitWith({ << >> }) /\ [][NextOpenDialog]_vars

----------------------------------------------------------------------------
(* Properties *)

\* Two rectangles overlap: their interiors meet.
RectOverlap(a, b) ==
    /\ a.gridX < b.gridX + b.width
    /\ b.gridX < a.gridX + a.width
    /\ a.gridY < b.gridY + b.height
    /\ b.gridY < a.gridY + a.height

\* The places of the store: a collection and an index in it.
Placed ==
    { [kind |-> "building", i |-> i] : i \in 1..Len(placedBuildings) }
        \cup { [kind |-> "decoration", i |-> i] : i \in 1..Len(placedDecorations) }
        \cup { [kind |-> "enclosure", i |-> i] : i \in 1..Len(enclosures) }

EntityAt(k) == Collection(k.kind)[k.i]

\* The rectangle lies in the grid.
RectInGrid(e) ==
    /\ 0 <= e.gridX
    /\ 0 <= e.gridY
    /\ e.gridX + e.width <= GRID_SIZE
    /\ e.gridY + e.height <= GRID_SIZE

\* The entity of the given kind and id among the collections bs, ds, es;
\* NULL when it is not stored.
EntityIn(kind, id, bs, ds, es) ==
    FindById(CASE kind = "building"   -> bs
               [] kind = "decoration" -> ds
               [] kind = "enclosure"  -> es, id)

\* The rectangle r overlaps a stored entity other than the one of that kind
\* and id.
OverlapsAnother(r, kind, id) ==
    \E k \in Placed :
        /\ ~(k.kind = kind /\ EntityAt(k).id = id)
        /\ RectOverlap(r, EntityAt(k))

\* C1.  No-overlap invariant: whenever no gesture is in progress, no two
\* distinct stored entities, taken across the three collections, have
\* overlapping rectangles (touching edges are allowed).
C1_NoOverlapWhenIdle ==
    ~GestureActive =>
        \A a \in Placed, b \in Placed :
            a # b => ~RectOverlap(EntityAt(a), EntityAt(b))

\* C2.  Bounds invariant: every stored building, decoration and enclosure
\* has 0 <= gridX, 0 <= gridY, gridX + width <= GRID_SIZE and
\* gridY + height <= GRID_SIZE.
C2_InBounds == \A k \in Placed : RectInGrid(EntityAt(k))

\* C3.  Uniqueness invariant: at most one enclosure per animal, and at most
\* one placed building per building entry other than 'restroom'.
C3_Unique ==
    /\ \A a \in 1..Len(ANIMALS) :
          Cardinality({ i \in 1..Len(enclosures) :
                          enclosures[i].animal = ANIMALS[a].id }) <= 1
    /\ \A c \in 1..Len(BUILDINGS) :
          BUILDINGS[c].id # "restroom" =>
              Cardinality({ i \in 1..Len(placedBuildings) :
                              placedBuildings[i].id.t = BUILDINGS[c].id }) <= 1

\* The multiset of the elements of a sequence.
BagOf(seq) ==
    [r \in Range(seq) |-> Cardinality({ i \in 1..Len(seq) : seq[i] = r })]

\* The 0-based position of the entry of type id t in a catalog.
CatalogIndex(catalog, t) ==
    (CHOOSE i \in 1..Len(catalog) : catalog[i].id = t) - 1

\* C4.  Round-trip law: decodeZooState(encodeZooState(S)) holds, per section,
\* the same multiset of (catalog index, x, y[, w, h]) tuples as the store S,
\* when every index, coordinate and size of S is in 0..35; empty sections
\* included.
C4_RoundTrip ==
    last.op = "decode" =>
        /\ BagOf(result.buildings) =
               BagOf([i \in 1..Len(placedBuildings) |->
                        [typeIndex |-> CatalogIndex(BUILDINGS, placedBuildings[i].id.t),
                         x |-> placedBuildings[i].gridX,
                         y |-> placedBuildings[i].gridY]])
        /\ BagOf(result.decorations) =
               BagOf([i \in 1..Len(placedDecorations) |->
                        [typeIndex |-> CatalogIndex(DECORATIONS,
                                                    placedDecorations[i].id.t),
                         x |-> placedDecorations[i].gridX,
                         y |-> placedDecorations[i].gridY]])
        /\ BagOf(result.enclosures) =
               BagOf([i \in 1..Len(enclosures) |->
                        [animalIndex |-> CatalogIndex(ANIMALS, enclosures[i].animal),
                         x |-> enclosures[i].gridX,
                         y |-> enclosures[i].gridY,
                         w |-> enclosures[i].width,
                         h |-> enclosures[i].height]])

\* A store with a building at coordinate 35, no decoration and an enclosure
\* has been encoded and decoded.
C4_Witness ==
    /\ last.op = "decode"
    /\ \E i \in 1..Len(placedBuildings) : placedBuildings[i].gridX = 35
    /\ placedDecorations = << >>
    /\ Len(enclosures) = 1
    /\ Len(result.enclosures) = 1

\* The step is a release that ends the Moving gesture.
MovingReleased ==
    /\ movingItem # NULL
    /\ resizingEnclosure = NULL
    /\ movingItem' = NULL
    /\ last'.op = "up"

\* The step is a release that ends the Resizing gesture.
ResizingReleased ==
    /\ resizingEnclosure # NULL
    /\ resizingEnclosure' = NULL
    /\ last'.op = "up"

\* C5.  Revert law (move): when a Moving gesture ends with a release at 5 px
\* or more from its down event and the entity's rectangle at the release is
\* out of the grid or overlaps another entity, the entity's (gridX, gridY)
\* after the release is the (originalX, originalY) recorded at the down event.
C5_MoveRevert ==
    [][ LET item  == EntityIn(movingItem.type, movingItem.id,
                              placedBuildings, placedDecorations, enclosures)
            after == EntityIn(movingItem.type, movingItem.id,
                              placedBuildings', placedDecorations', enclosures')
        IN  ( /\ MovingReleased
              /\ ~last'.near
              /\ item # NULL
              /\ \/ ~RectInGrid(item)
                 \/ OverlapsAnother(item, movingItem.type, movingItem.id) )
            => /\ after # NULL
               /\ after.gridX = movingItem.originalX
               /\ after.gridY = movingItem.originalY ]_vars

\* A drag was released on top of another entity and the item went back.
C5_Witness ==
    /\ last.op = "up"
    /\ last.out = "move-revert"
    /\ ~last.near

\* C6.  Reject law (resize): a move event during Resizing whose candidate
\* rectangle overlaps another entity leaves gridX, gridY, width and height of
\* the enclosure as they were.
C6_ResizeReject ==
    [][ LET enc   == EntityIn("enclosure", resizingEnclosure.id,
                              placedBuildings, placedDecorations, enclosures)
            after == EntityIn("enclosure", resizingEnclosure.id,
                              placedBuildings', placedDecorations', enclosures')
            cand  == ResizeCandidate(enc, resizingEnclosure.edge,
                                     getGridPoint(last'.at))
        IN  ( /\ resizingEnclosure # NULL
              /\ last'.op = "move"
              /\ enc # NULL
              /\ OverlapsAnother(cand, "enclosure", resizingEnclosure.id) )
            => /\ after # NULL
               /\ Geometry(after) = Geometry(enc) ]_vars

\* A move event during Resizing had a candidate on top of another entity
\* and was rejected.
C6_Witness ==
    /\ last.op = "move"
    /\ last.out = "rejected"
    /\ resizingEnclosure # NULL

\* C7.  Click-vs-drag threshold: a release closer than 5 px to the down event
\* of the Moving or Resizing gesture it ends is a delete request (the dialog
\* for that entity is shown), and the entity's geometry after the release is
\* its geometry at the down event; the gesture is not committed.
C7_ClickIsDeleteRequest ==
    [][ /\ ( MovingReleased /\ last'.near ) =>
              LET after == EntityIn(movingItem.type, movingItem.id,
                                    placedBuildings', placedDecorations', enclosures')
              IN  /\ pending' = Append(pending, [kind |-> movingItem.type,
                                                  id   |-> movingItem.id])
                  /\ after # NULL =>
                        /\ after.gridX = movingItem.originalX
                        /\ after.gridY = movingItem.originalY
        /\ ( ResizingReleased /\ last'.near ) =>
              LET after == EntityIn("enclosure", resizingEnclosure.id,
                                    placedBuildings', placedDecorations', enclosures')
              IN  /\ pending' = Append(pending, [kind |-> "enclosure",
                                                  id   |-> resizingEnclosure.id])
                  /\ after # NULL =>
                        Geometry(after) = resizingEnclosure.originalData ]_vars

\* C8.  Delete on confirmation only: while the dialog of a click is open the
\* clicked entity stays in the store as the click left it; it leaves the
\* store only in the step that accepts a dialog; and dismissing a dialog
\* leaves the store as it is.
C8_DeleteOnConfirmationOnly ==
    [][ /\ \A i \in 1..Len(pending) :
              LET d      == pending[i]
                  before == EntityIn(d.kind, d.id,
                                     placedBuildings, placedDecorations, enclosures)
                  after  == EntityIn(d.kind, d.id,
                                     placedBuildings', placedDecorations', enclosures')
              IN  ( d.kind # "startOver" /\ before # NULL ) =>
                      \/ after = before
                      \/ last'.op = "confirm" /\ after = NULL
        /\ last'.op = "dismiss" => UNCHANGED storeVars ]_vars

\* C9.  Exactly one active gesture: at most one of state.drawing,
\* state.movingItem and state.resizingEnclosure is non-null.
C9_OneGesture ==
    (IF drawing # NULL THEN 1 ELSE 0) + (IF movingItem # NULL THEN 1 ELSE 0)
        + (IF resizingEnclosure # NULL THEN 1 ELSE 0) <= 1

\* The one stored entity of a checkOverlap run.
OnlyEntity == EntityAt(CHOOSE k \in Placed : TRUE)

\* C10.  Overlap test: for rectangles a and b of positive width and height
\* checkOverlap's test is true exactly when a.x < b.x + b.w, b.x < a.x + a.w,
\* a.y < b.y + b.h and b.y < a.y + a.h; rectangles that share only an edge or
\* a corner are not overlapping.
C10_OverlapTest ==
    last.op = "checkOverlap" =>
        result = ( /\ probe.gridX < OnlyEntity.gridX + OnlyEntity.width
                   /\ OnlyEntity.gridX < probe.gridX + probe.width
                   /\ probe.gridY < OnlyEntity.gridY + OnlyEntity.height
                   /\ OnlyEntity.gridY < probe.gridY + probe.height )

\* The test was applied to two rectangles that share an edge and nothing
\* else: it found no overlap.
C10_Witness ==
    /\ last.op = "checkOverlap"
    /\ result = FALSE
    /\ probe.gridX + probe.width = OnlyEntity.gridX
    /\ probe.gridY = OnlyEntity.gridY
    /\ probe.height = OnlyEntity.height

\* C11.  checkOverlap(rect, excludeId) is true exactly when rect overlaps at
\* least one entity of placedBuildings, placedDecorations or enclosures whose
\* id differs from excludeId; with excludeId null every stored entity counts.
C11_QueryExhaustive ==
    last.op = "query" =>
        result = ( \E k \in Placed :
                      /\ EntityAt(k).id # probe.excludeId
                      /\ RectOverlap(probe, EntityAt(k)) )

\* The rectangle overlaps the excluded entity and a decoration: the call
\* reports the overlap with the decoration.
C11_Witness ==
    /\ last.op = "query"
    /\ result = TRUE
    /\ probe.excludeId = [t |-> "enclosure", n |-> 1]
    /\ enclosures # << >>
    /\ RectOverlap(probe, enclosures[1])
    /\ placedBuildings = << >>
    /\ placedDecorations # << >>

\* The rectangle a drop of the palette entry itemId at position p asks for.
DropRectangle(itemId, p) ==
    LET building == FindDef(BUILDINGS, itemId)
        item     == IF building # NULL THEN building ELSE FindDef(DECORATIONS, itemId)
    IN  [gridX |-> p.x \div CELL_SIZE, gridY |-> p.y \div CELL_SIZE,
         width |-> item.width, height |-> item.height]

\* The drop would place a second instance of a one-per-zoo building.
DropIsSecondInstance(itemId) ==
    /\ FindDef(BUILDINGS, itemId) # NULL
    /\ itemId # "restroom"
    /\ \E i \in 1..Len(placedBuildings) : placedBuildings[i].id.t = itemId

\* C12.  A palette drop whose rectangle is out of bounds on any side
\* (negative coordinates included), overlaps a stored entity, or is a second
\* instance of a building other than the restroom adds nothing: the three
\* collections and the id counters are the same before and after the drop.
C12_DropFailureKeepsStore ==
    [][ \A itemId \in PaletteIds, p \in DropPositions :
          ( /\ handleGridDrop(itemId, p)
            /\ \/ ~RectInGrid(DropRectangle(itemId, p))
               \/ \E k \in Placed : RectOverlap(DropRectangle(itemId, p), EntityAt(k))
               \/ DropIsSecondInstance(itemId) )
          => UNCHANGED << storeVars, idVars >> ]_vars

\* The step is a release handled by the drawing branch.
DrawingReleased ==
    /\ drawing # NULL
    /\ movingItem = NULL
    /\ resizingEnclosure = NULL
    /\ last'.op = "up"

\* The rectangle between the cell where the drawing began and the cell the
\* pointer was last in.
DrawingSpan ==
    [gridX  |-> IF drawing.startX < drawing.currentX THEN drawing.startX
                ELSE drawing.currentX,
     gridY  |-> IF drawing.startY < drawing.currentY THEN drawing.startY
                ELSE drawing.currentY,
     width  |-> (IF drawing.startX < drawing.currentX
                 THEN drawing.currentX - drawing.startX
                 ELSE drawing.startX - drawing.currentX) + 1,
     height |-> (IF drawing.startY < drawing.currentY
                 THEN drawing.currentY - drawing.startY
                 ELSE drawing.startY - drawing.currentY) + 1]

\* The drawn rectangle overlaps nothing stored and the selected animal has no
\* enclosure.
DrawingMayCreate ==
    /\ \A k \in Placed : ~RectOverlap(DrawingSpan, EntityAt(k))
    /\ \A i \in 1..Len(enclosures) : enclosures[i].animal # selectedAnimal

\* C13.  Releasing a Drawing gesture creates an enclosure only if the drawn
\* rectangle overlaps no stored entity and the selected animal has no
\* enclosure; otherwise enclosures and nextEnclosureId are unchanged; either
\* way the Drawing state is cleared.
C13_DrawFailureKeepsStore ==
    [][ DrawingReleased =>
          /\ drawing' = NULL
          /\ ~DrawingMayCreate =>
                 /\ enclosures' = enclosures
                 /\ nextEnclosureId' = nextEnclosureId ]_vars

\* A drawing over a stored entity was released and rejected.
C13_Witness ==
    /\ last.op = "up"
    /\ last.out = "draw-rejected"
    /\ drawing = NULL
    /\ Placed # { }

\* The stride of the k-th section of an encoding.
StrideOf(k) == IF k = 3 THEN 5 ELSE 3

\* The string is malformed: in one of its first three sections a character
\* inside a full record is not a digit of radix 36.
UrlMalformed(str) ==
    LET parts == Split(str, ".")
    IN  \E k \in 1..Min(3, Len(parts)) :
            \E i \in 1..(StrideOf(k) * (Len(parts[k]) \div StrideOf(k))) :
                \A d \in 1..36 : DIGITS[d] # parts[k][i]

\* C14.  Decode failure is all-or-nothing: for a malformed string
\* decodeZooState gives the failure signal null, and loadFromURL leaves the
\* three collections empty.
C14_DecodeFailureAddsNothing ==
    [][ ( ~loaded /\ loaded' /\ UrlMalformed(url) ) =>
          /\ decodeZooState(url) = NULL
          /\ placedBuildings' = << >>
          /\ placedDecorations' = << >>
          /\ enclosures' = << >> ]_vars

\* The three section strings encodeZooState joins, each as encodeZooState
\* writes it when the other two collections are empty.
BuildingSection == EncodeOf(placedBuildings, << >>, << >>)

DecorationSection ==
    LET s == EncodeOf(<< >>, placedDecorations, << >>)
    IN  IF s = << >> THEN s ELSE SubSeq(s, 2, Len(s))

EnclosureSection ==
    LET s == EncodeOf(<< >>, << >>, enclosures)
    IN  IF s = << >> THEN s ELSE SubSeq(s, 3, Len(s))

\* buildings + '.' + decorations + '.' + enclosures, nothing stripped.
UnstrippedEncoding ==
    BuildingSection \o << "." >> \o DecorationSection \o << "." >> \o EnclosureSection

\* C15.  Trailing-dot stripping is transparent to decoding: the string
\* encodeZooState returns never ends with '.', decoding it gives the three
\* record lists that decoding the unstripped string gives, and a section
\* missing from a string of 1 or 2 sections decodes as empty.
C15_StripTransparent ==
    last.op \in { "encode", "decode" } =>
        /\ url = << >> \/ url[Len(url)] # "."
        /\ decodeZooState(url) = decodeZooState(UnstrippedEncoding)
        /\ Len(Split(url, ".")) < 3 => decodeZooState(url).enclosures = << >>
        /\ Len(Split(url, ".")) < 2 => decodeZooState(url).decorations = << >>

\* A store of buildings only was encoded: the string has one section, and
\* was decoded.
C15_Witness ==
    /\ last.op = "decode"
    /\ placedBuildings # << >>
    /\ Len(Split(url, ".")) = 1
    /\ UnstrippedEncoding = url \o << ".", "." >>
    /\ result.buildings # << >>
    /\ result.enclosures = << >>

\* The k-th section of the string in url; empty when the string has fewer.
SectionOfUrl(k) ==
    IF k <= Len(Split(url, ".")) THEN Split(url, ".")[k] ELSE << >>

\* The value of a digit of radix 36.
DigitValue(ch) == (CHOOSE d \in 1..36 : DIGITS[d] = ch) - 1

\* The digits of the i-th full stride of a section, as numbers.
StrideValues(section, stride, i) ==
    [j \in 1..stride |-> DigitValue(section[stride * (i - 1) + j])]

\* C16.  Partial-record tolerance: from a section whose length is not a
\* multiple of its stride (3 for buildings and decorations, 5 for enclosures)
\* decodeZooState returns floor(length / stride) records, those of the
\* leading full strides, drops the rest, and signals no failure.
C16_PartialRecordDropped ==
    last.op = "decode" =>
        /\ result # NULL
        /\ Len(result.buildings) = Len(SectionOfUrl(1)) \div 3
        /\ Len(result.decorations) = Len(SectionOfUrl(2)) \div 3
        /\ Len(result.enclosures) = Len(SectionOfUrl(3)) \div 5
        /\ \A i \in 1..Len(result.buildings) :
              << result.buildings[i].typeIndex, result.buildings[i].x,
                 result.buildings[i].y >> = StrideValues(SectionOfUrl(1), 3, i)
        /\ \A i \in 1..Len(result.decorations) :
              << result.decorations[i].typeIndex, result.decorations[i].x,
                 result.decorations[i].y >> = StrideValues(SectionOfUrl(2), 3, i)
        /\ \A i \in 1..Len(result.enclosures) :
              << result.enclosures[i].animalIndex, result.enclosures[i].x,
                 result.enclosures[i].y, result.enclosures[i].w,
                 result.enclosures[i].h >> = StrideValues(SectionOfUrl(3), 5, i)

\* A buildings section of 4 characters and a decorations section of 2 were
\* decoded: one building record, no decoration record.
C16_Witness ==
    /\ last.op = "decode"
    /\ Len(SectionOfUrl(1)) = 4
    /\ Len(SectionOfUrl(2)) = 2
    /\ Len(result.buildings) = 1
    /\ result.decorations = << >>

\* In url, after encodeZooState: a building and a decoration take 3
\* characters each and an enclosure 5, the sections are in the order
\* buildings, decorations, enclosures, and the records of a section are in
\* the order of its collection: catalog index, x, y and, for an enclosure, w, h.
RecordsFixedWidth ==
    /\ Len(SectionOfUrl(1)) = 3 * Len(placedBuildings)
    /\ Len(SectionOfUrl(2)) = 3 * Len(placedDecorations)
    /\ Len(SectionOfUrl(3)) = 5 * Len(enclosures)
    /\ \A i \in 1..Len(placedBuildings) :
          StrideValues(SectionOfUrl(1), 3, i) =
              << CatalogIndex(BUILDINGS, placedBuildings[i].id.t),
                 placedBuildings[i].gridX, placedBuildings[i].gridY >>
    /\ \A i \in 1..Len(placedDecorations) :
          StrideValues(SectionOfUrl(2), 3, i) =
              << CatalogIndex(DECORATIONS, placedDecorations[i].id.t),
                 placedDecorations[i].gridX, placedDecorations[i].gridY >>
    /\ \A i \in 1..Len(enclosures) :
          StrideValues(SectionOfUrl(3), 5, i) =
              << CatalogIndex(ANIMALS, enclosures[i].animal),
                 enclosures[i].gridX, enclosures[i].gridY,
                 enclosures[i].width, enclosures[i].height >>

\* The store is the single building of catalog index 2 at (5,5).
IsCodecExample ==
    /\ placedBuildings = CodecExample.b
    /\ placedDecorations = << >>
    /\ enclosures = << >>

\* C17, as stated.  Fixed-width records: with every catalog index, coordinate
\* and size in 0..35, encodeZooState emits 3 characters per building and per
\* decoration and 5 per enclosure, in the section order buildings,
\* decorations, enclosures; a single building of catalog index 2 at (5,5)
\* encodes to "253".
C17_FixedWidthAsStated ==
    last.op = "encode" =>
        /\ RecordsFixedWidth
        /\ IsCodecExample => url = << "2", "5", "3" >>

\* C17, amended.  Fixed-width records as above; a single building of catalog
\* index 2 at (5,5) encodes to "255": the index, then x, then y.
C17_FixedWidth ==
    last.op = "encode" =>
        /\ RecordsFixedWidth
        /\ IsCodecExample => url = << "2", "5", "5" >>

\* The single building of catalog index 2 at (5,5) was encoded.
C17_Witness ==
    /\ last.op = "encode"
    /\ IsCodecExample
    /\ Len(url) = 3

\* The enclosure's area and perimeter reach its animal's thresholds.
RequirementMet(e) ==
    LET animal == ANIMALS[CatalogIndex(ANIMALS, e.animal) + 1]
    IN  /\ e.width * e.height >= animal.minArea
        /\ 2 * (e.width + e.height) >= animal.minPerimeter

\* C18.  Validation status is a three-way, mutually exclusive classification:
\* an enclosure is shown invalid iff it is out of bounds or overlaps another
\* entity; warning iff it is in bounds, overlaps nothing and fails its
\* animal's requirement; ok iff it is in bounds, overlaps nothing and meets
\* it.  Invalid takes priority over warning.
C18_StatusThreeWay ==
    last.op = "render" =>
        LET e      == enclosures[probe]
            placed == RectInGrid(e) /\ ~OverlapsAnother(e, "enclosure", e.id)
        IN  /\ result.class \in { "enclosure-invalid", "enclosure-warning", "enclosure" }
            /\ result.class = "enclosure-invalid" <=> ~placed
            /\ result.class = "enclosure-warning" <=> (placed /\ ~RequirementMet(e))
            /\ result.class = "enclosure" <=> (placed /\ RequirementMet(e))

\* An enclosure that overlaps a building and is too small for its animal was
\* rendered: it is shown invalid.
C18_Witness ==
    /\ last.op = "render"
    /\ result.class = "enclosure-invalid"
    /\ placedBuildings # << >>
    /\ RectOverlap(enclosures[probe], placedBuildings[1])
    /\ ~RequirementMet(enclosures[probe])

\* C19.  Requirement check: meetsRequirement is true iff w*h >= minArea and
\* 2*(w+h) >= minPerimeter, and the summary table flags a warning exactly
\* when it is false; a 4x3 enclosure meets (12,14) and fails (20,14).
C19_RequirementCheck ==
    /\ last.op = "render" => result.meets = RequirementMet(enclosures[probe])
    /\ last.op = "summary" =>
          /\ DOMAIN result.rows = 1..Len(enclosures)
          /\ \A i \in 1..Len(enclosures) :
                result.rows[i] = ~RequirementMet(enclosures[i])
    /\ MeetsRequirements([width |-> 4, height |-> 3],
                         [minArea |-> 12, minPerimeter |-> 14])
    /\ ~MeetsRequirements([width |-> 4, height |-> 3],
                          [minArea |-> 20, minPerimeter |-> 14])

\* The summary table was built for an enclosure whose area reaches the
\* threshold and whose perimeter does not: its row is flagged.
C19_Witness ==
    /\ last.op = "summary"
    /\ \E i \in 1..Len(enclosures) :
          /\ result.rows[i]
          /\ enclosures[i].width * enclosures[i].height
                 >= ANIMALS[CatalogIndex(ANIMALS, enclosures[i].animal) + 1].minArea

\* The pointer is within the edge threshold of a side of the enclosure.
PointerNearEdge(e, p) ==
    LET left   == e.gridX * CELL_SIZE
        right  == (e.gridX + e.width) * CELL_SIZE
        top    == e.gridY * CELL_SIZE
        bottom == (e.gridY + e.height) * CELL_SIZE
    IN  /\ left - EDGE_THRESHOLD_PX <= p.x /\ p.x <= right + EDGE_THRESHOLD_PX
        /\ top - EDGE_THRESHOLD_PX <= p.y /\ p.y <= bottom + EDGE_THRESHOLD_PX
        /\ \/ p.x <= left + EDGE_THRESHOLD_PX
           \/ p.x >= right - EDGE_THRESHOLD_PX
           \/ p.y <= top + EDGE_THRESHOLD_PX
           \/ p.y >= bottom - EDGE_THRESHOLD_PX

\* The pointer is over the body of the entity.
PointerOver(e, p) ==
    /\ e.gridX * CELL_SIZE <= p.x /\ p.x < (e.gridX + e.width) * CELL_SIZE
    /\ e.gridY * CELL_SIZE <= p.y /\ p.y < (e.gridY + e.height) * CELL_SIZE

\* C20.  Down-event dispatch priority: a down event while idle starts
\* Resizing if the pointer is near an edge of any enclosure, even over the
\* body of a building, a decoration or another enclosure; otherwise Moving if
\* an entity body was hit; otherwise Drawing if an animal is selected, and
\* nothing (no gesture, store unchanged) if none is.
C20_DownDispatch ==
    [][ \A p \in DispatchPositions :
          ( ~GestureActive /\ handleGridMouseDown(p) ) =>
             /\ UNCHANGED storeVars
             /\ IF \E i \in 1..Len(enclosures) : PointerNearEdge(enclosures[i], p)
                THEN resizingEnclosure' # NULL /\ movingItem' = NULL /\ drawing' = NULL
                ELSE IF \E k \in Placed : PointerOver(EntityAt(k), p)
                THEN movingItem' # NULL /\ resizingEnclosure' = NULL /\ drawing' = NULL
                ELSE IF selectedAnimal # NoAnimal
                THEN drawing' # NULL /\ movingItem' = NULL /\ resizingEnclosure' = NULL
                ELSE UNCHANGED gestureVars ]_vars

\* A down event near the right side of an enclosure and over the body of the
\* building beside it started Resizing.
C20_Witness ==
    /\ last.op = "down"
    /\ resizingEnclosure # NULL
    /\ movingItem = NULL
    /\ \E i \in 1..Len(placedBuildings) :
          PointerOver(placedBuildings[i], began.resizing)

\* A down event on an empty cell with no animal selected started nothing.
C20_WitnessNoAnimal ==
    /\ last.op = "down"
    /\ last.out = "none"
    /\ selectedAnimal = NoAnimal
    /\ ~GestureActive

\* The raw pointer position is more than 50 pixels outside the grid rectangle.
FarOutside(p) ==
    \/ p.x < 0 - 50
    \/ p.x > GRID_SIZE * CELL_SIZE + 50
    \/ p.y < 0 - 50
    \/ p.y > GRID_SIZE * CELL_SIZE + 50

\* C21.  Out-of-margin freeze: a move event during Moving whose raw pointer
\* position is more than 50 pixels outside the grid rectangle changes no
\* stored geometry and does not end the gesture; the release that follows
\* finalizes with the position the last in-margin move event wrote: the entity
\* keeps it when it is valid and the release is a drag, and goes back to its
\* original position otherwise.
C21_OutOfMarginFreeze ==
    [][ /\ \A p \in GesturePositions \cup OutsidePositions :
              ( /\ movingItem # NULL
                /\ resizingEnclosure = NULL
                /\ FarOutside(p)
                /\ handleGridMouseMove(p) )
              => UNCHANGED << storeVars, gestureVars >>
        /\ ( last.op = "move" /\ last.out = "frozen" /\ MovingReleased ) =>
              LET item  == EntityIn(movingItem.type, movingItem.id,
                                    placedBuildings, placedDecorations, enclosures)
                  after == EntityIn(movingItem.type, movingItem.id,
                                    placedBuildings', placedDecorations', enclosures')
                  kept  == /\ ~last'.near
                           /\ RectInGrid(item)
                           /\ ~OverlapsAnother(item, movingItem.type, movingItem.id)
              IN  /\ item # NULL /\ after # NULL
                  /\ after.gridX = IF kept THEN item.gridX ELSE movingItem.originalX
                  /\ after.gridY = IF kept THEN item.gridY ELSE movingItem.originalY
                  /\ after.width = item.width
                  /\ after.height = item.height ]_vars

\* A move event far outside the grid arrived after the entity had been
\* dragged away from its original cell, and the entity stayed where it was.
C21_Witness ==
    /\ last.op = "move"
    /\ last.out = "frozen"
    /\ movingItem # NULL
    /\ LET item == EntityIn(movingItem.type, movingItem.id,
                            placedBuildings, placedDecorations, enclosures)
       IN  /\ item # NULL
           /\ item.gridX # movingItem.originalX \/ item.gridY # movingItem.originalY

\* C22.  Resize resumes after rejection: a move event during Resizing whose
\* candidate overlaps another entity leaves the enclosure with the geometry
\* it had (that of the last accepted candidate) and leaves the gesture as it
\* was; a move event whose candidate overlaps nothing is applied, also when
\* the move event before it was rejected.
C22_ResizeResumes ==
    [][ LET enc   == EntityIn("enclosure", resizingEnclosure.id,
                              placedBuildings, placedDecorations, enclosures)
            after == EntityIn("enclosure", resizingEnclosure.id,
                              placedBuildings', placedDecorations', enclosures')
            cand  == ResizeCandidate(enc, resizingEnclosure.edge,
                                     getGridPoint(last'.at))
        IN  ( resizingEnclosure # NULL /\ enc # NULL /\ last'.op = "move" )
            => /\ resizingEnclosure' = resizingEnclosure
               /\ after # NULL
               /\ Geometry(after) =
                     IF OverlapsAnother(cand, "enclosure", resizingEnclosure.id)
                     THEN Geometry(enc) ELSE cand ]_vars

\* A candidate was rejected after another one had been accepted: the
\* enclosure holds the accepted geometry, not the one of the gesture's start.
C22_Witness ==
    /\ last.op = "move"
    /\ last.out = "rejected"
    /\ resizingEnclosure # NULL
    /\ LET enc == EntityIn("enclosure", resizingEnclosure.id,
                           placedBuildings, placedDecorations, enclosures)
       IN  enc # NULL /\ Geometry(enc) # resizingEnclosure.originalData

\* C23.  Resize release: when a Resizing gesture ends closer than 5 px to its
\* down event, the enclosure's gridX, gridY, width and height equal the
\* originalData recorded at the down event and a delete confirmation for the
\* enclosure is requested; when it ends as a drag, the enclosure keeps the
\* geometry it has and no confirmation is requested, and a geometry applied
\* during the gesture is in bounds and overlaps no other entity.
C23_ResizeRelease ==
    [][ LET enc   == EntityIn("enclosure", resizingEnclosure.id,
                              placedBuildings, placedDecorations, enclosures)
            after == EntityIn("enclosure", resizingEnclosure.id,
                              placedBuildings', placedDecorations', enclosures')
        IN  ( ResizingReleased /\ enc # NULL ) =>
               /\ after # NULL
               /\ IF last'.near
                  THEN /\ Geometry(after) = resizingEnclosure.originalData
                       /\ pending' = Append(pending, [kind |-> "enclosure",
                                                      id   |-> resizingEnclosure.id])
                  ELSE /\ Geometry(after) = Geometry(enc)
                       /\ pending' = pending
                       /\ Geometry(enc) # resizingEnclosure.originalData =>
                             /\ RectInGrid(after)
                             /\ ~OverlapsAnother(after, "enclosure",
                                                 resizingEnclosure.id) ]_vars

\* A resized enclosure was released at the place of the down event: it got
\* its original geometry back and the dialog is open.
C23_Witness ==
    /\ last.op = "up"
    /\ last.out = "resize-click-restored"
    /\ last.near
    /\ pending # << >>

\* A resized enclosure was released elsewhere and kept its new geometry.
C23_WitnessDrag ==
    /\ last.op = "up"
    /\ last.out = "resize-drag"
    /\ ~last.near
    /\ \E i \in 1..Len(enclosures) : enclosures[i].width * enclosures[i].height > 1

\* The collection of the given kind after the step.
CollectionAfter(kind) ==
    CASE kind = "building"   -> placedBuildings'
      [] kind = "decoration" -> placedDecorations'
      [] kind = "enclosure"  -> enclosures'

\* C24.  Fresh instance ids: every insertion (drop, draw, load-from-URL
\* record) appends the new entities at the end of their collection, with id
\* numbers strictly greater than every id number handed out before in that
\* collection during the session, so that no two entities of the collection
\* share an id.
C24_FreshIds ==
    [][ \A kind \in { "building", "decoration", "enclosure" } :
          LET old == Collection(kind)
              new == CollectionAfter(kind)
          IN  Len(new) > Len(old) =>
                 /\ SubSeq(new, 1, Len(old)) = old
                 /\ \A i \in (Len(old) + 1)..Len(new) :
                       /\ \A n \in assigned[kind] : new[i].id.n > n
                       /\ \A j \in (Len(old) + 1)..(i - 1) : new[j].id.n < new[i].id.n
                 /\ \A i \in 1..Len(new), j \in 1..Len(new) :
                       i # j => new[i].id # new[j].id ]_vars

\* seq without its k-th element.
RemoveAt(seq, k) == SubSeq(seq, 1, k - 1) \o SubSeq(seq, k + 1, Len(seq))

\* C25.  Deletion by id: deleteBuilding, deleteDecoration and deleteEnclosure
\* remove exactly the entity of the given id from their collection and leave
\* every other entity, its place and its geometry as they were; when no
\* entity of the collection has that id the collections stay as they are.
C25_DeleteById ==
    [][ last'.op = "call" =>
          LET coll == Collection(last'.out)
              hits == { i \in 1..Len(coll) : coll[i].id = last'.id }
          IN  /\ \A kind \in { "building", "decoration", "enclosure" } :
                    kind # last'.out => CollectionAfter(kind) = Collection(kind)
              /\ IF hits = { }
                 THEN CollectionAfter(last'.out) = coll
                 ELSE \E k \in hits :
                         /\ hits = { k }
                         /\ CollectionAfter(last'.out) = RemoveAt(coll, k) ]_vars

\* A delete function was called with an id that no entity of its collection
\* has (any more): it removed nothing, and the other entities are still there.
C25_Witness ==
    /\ last.op = "call"
    /\ last.removed = 0
    /\ Collection(last.out) # << >>

\* A delete function removed one entity and left the others.
C25_WitnessRemoved ==
    /\ last.op = "call"
    /\ last.removed = 1
    /\ Collection(last.out) # << >>

\* The entities of seq whose catalog entry is not t, in their order.
OfOtherEntries(seq, t) == SelectSeq(seq, LAMBDA e : e.id.t # t)

\* C26.  Bulk delete by catalog type: deleteAllRestrooms removes every placed
\* instance of the unlimited building entry and deleteAllDecorationType(t)
\* every placed decoration of entry t; afterwards no instance of that entry
\* remains and every entity of any other entry is still present, in its place
\* and with its geometry.
C26_BulkDelete ==
    [][ /\ deleteAllRestrooms =>
              /\ placedBuildings' = OfOtherEntries(placedBuildings, "restroom")
              /\ \A i \in 1..Len(placedBuildings') :
                    placedBuildings'[i].id.t # "restroom"
              /\ UNCHANGED << placedDecorations, enclosures >>
        /\ \A c \in 1..Len(DECORATIONS) :
              deleteAllDecorationType(DECORATIONS[c].id) =>
                 /\ placedDecorations' =
                        OfOtherEntries(placedDecorations, DECORATIONS[c].id)
                 /\ \A i \in 1..Len(placedDecorations') :
                       placedDecorations'[i].id.t # DECORATIONS[c].id
                 /\ UNCHANGED << placedBuildings, enclosures >> ]_vars

\* Both trees were deleted at once and the decoration of the other entry is
\* still there.
C26_Witness ==
    /\ last.op = "delete"
    /\ last.out = "decorations"
    /\ Len(placedDecorations) = 1
    /\ placedDecorations[1].id = [t |-> "shop", n |-> 2]
    /\ assigned.decoration = { 1, 2, 3 }

\* Both restrooms were deleted at once and the shop is still there.
C26_WitnessRestrooms ==
    /\ last.op = "delete"
    /\ last.out = "restrooms"
    /\ Len(placedBuildings) = 1
    /\ placedBuildings[1].id = [t |-> "shop", n |-> 2]

\* C27.  Drawing rectangle: the rectangle of a Drawing gesture is
\* x = min(startX, currentX), y = min(startY, currentY),
\* width = |currentX - startX| + 1, height = |currentY - startY| + 1.  After
\* every down and move event of the gesture its width and height are at least
\* 1 and it lies inside the grid; a down event gives one cell; and the
\* enclosure a release creates has exactly that rectangle.
C27_DrawingRectangle ==
    [][ /\ drawing' # NULL =>
              /\ DrawingSpan'.width >= 1
              /\ DrawingSpan'.height >= 1
              /\ RectInGrid(DrawingSpan')
        /\ ( drawing = NULL /\ drawing' # NULL ) =>
              DrawingSpan'.width = 1 /\ DrawingSpan'.height = 1
        /\ ( DrawingReleased /\ Len(enclosures') > Len(enclosures) ) =>
              /\ Len(enclosures') = Len(enclosures) + 1
              /\ Geometry(enclosures'[Len(enclosures')]) = DrawingSpan ]_vars

\* A drawing that was dragged from column 1 back to column 0: the rectangle
\* begins at the pointer's column and is two cells wide.
C27_Witness ==
    /\ drawing # NULL
    /\ drawing.currentX < drawing.startX
    /\ DrawingSpan.width = 2
    /\ last.op = "move"

\* A down and an up event on one cell created an enclosure of one cell.
C27_WitnessOneCell ==
    /\ last.op = "up"
    /\ last.out = "draw-added"
    /\ enclosures[Len(enclosures)].width = 1
    /\ enclosures[Len(enclosures)].height = 1

\* v held between lo and hi.
Clamp(v, lo, hi) == IF v < lo THEN lo ELSE IF v > hi THEN hi ELSE v

\* C28.  Move update and commit: a move event during Moving whose pointer is
\* within the margin sets the entity's position to
\* clamp(pointerCell - offset, 0, GRID_SIZE - size) on each axis, also when
\* that position overlaps another entity; at a drag release, an entity whose
\* rectangle is in bounds and overlaps no other entity keeps its position.
C28_MoveUpdateAndCommit ==
    [][ LET item  == EntityIn(movingItem.type, movingItem.id,
                              placedBuildings, placedDecorations, enclosures)
            after == EntityIn(movingItem.type, movingItem.id,
                              placedBuildings', placedDecorations', enclosures')
        IN  /\ \A p \in MovePositions \cup OutsidePositions :
                  ( /\ movingItem # NULL
                    /\ resizingEnclosure = NULL
                    /\ item # NULL
                    /\ ~FarOutside(p)
                    /\ handleGridMouseMove(p) )
                  => /\ after # NULL
                     /\ after.gridX = Clamp(getGridPoint(p).gridX - movingItem.offsetX,
                                            0, GRID_SIZE - item.width)
                     /\ after.gridY = Clamp(getGridPoint(p).gridY - movingItem.offsetY,
                                            0, GRID_SIZE - item.height)
                     /\ after.width = item.width
                     /\ after.height = item.height
                     /\ movingItem' = movingItem
            /\ ( /\ MovingReleased
                 /\ ~last'.near
                 /\ item # NULL
                 /\ RectInGrid(item)
                 /\ ~OverlapsAnother(item, movingItem.type, movingItem.id) )
               => /\ after # NULL
                  /\ Geometry(after) = Geometry(item) ]_vars

\* The enclosure, grabbed at its left cell, was dragged to the last column:
\* it was held inside the grid, on top of the restroom.
C28_Witness ==
    /\ last.op = "move"
    /\ last.out = "moved"
    /\ movingItem # NULL
    /\ movingItem.type = "enclosure"
    /\ movingItem.offsetX = 0
    /\ \E i \in 1..Len(enclosures) :
          /\ enclosures[i].id = movingItem.id
          /\ enclosures[i].gridX = GRID_SIZE - 2
          /\ OverlapsAnother(enclosures[i], "enclosure", movingItem.id)

\* A drag was released on free cells away from the original ones and the
\* entity stayed there.
C28_WitnessCommit ==
    /\ last.op = "up"
    /\ last.out = "move-commit"
    /\ ~last.near
    /\ \E i \in 1..Len(enclosures) : enclosures[i].gridX = GRID_SIZE - 2

\* C29.  Resize keeps the opposite edge fixed: a move event during the
\* Resizing of an in-bounds enclosure leaves gridX + width unchanged when the
\* left side is active, gridX when the right side is, gridY + height when the
\* top side is and gridY when the bottom side is; a side that is not active
\* on an axis leaves that axis alone; width and height stay at least 1.
C29_OppositeEdgeFixed ==
    [][ LET enc   == EntityIn("enclosure", resizingEnclosure.id,
                              placedBuildings, placedDecorations, enclosures)
            after == EntityIn("enclosure", resizingEnclosure.id,
                              placedBuildings', placedDecorations', enclosures')
            edge  == resizingEnclosure.edge
        IN  ( /\ resizingEnclosure # NULL
              /\ last'.op = "move"
              /\ enc # NULL
              /\ RectInGrid(enc) )
            => /\ after # NULL
               /\ after.width >= 1 /\ after.height >= 1
               /\ edge.left   => after.gridX + after.width = enc.gridX + enc.width
               /\ edge.right  => after.gridX = enc.gridX
               /\ edge.top    => after.gridY + after.height = enc.gridY + enc.height
               /\ edge.bottom => after.gridY = enc.gridY
               /\ ~(edge.left \/ edge.right) =>
                     after.gridX = enc.gridX /\ after.width = enc.width
               /\ ~(edge.top \/ edge.bottom) =>
                     after.gridY = enc.gridY /\ after.height = enc.height ]_vars

\* The left side of an enclosure was dragged one column to the left: the
\* enclosure begins there and its right side is where it was.
C29_Witness ==
    /\ last.op = "move"
    /\ last.out = "resized"
    /\ resizingEnclosure # NULL
    /\ resizingEnclosure.edge.left
    /\ LET enc == EntityIn("enclosure", resizingEnclosure.id,
                           placedBuildings, placedDecorations, enclosures)
       IN  /\ enc # NULL
           /\ enc.gridX < resizingEnclosure.originalData.gridX
           /\ enc.gridX + enc.width
                 = resizingEnclosure.originalData.gridX + resizingEnclosure.originalData.width

\* The same for the top side.
C29_WitnessTop ==
    /\ last.op = "move"
    /\ last.out = "resized"
    /\ resizingEnclosure # NULL
    /\ resizingEnclosure.edge.top
    /\ LET enc == EntityIn("enclosure", resizingEnclosure.id,
                           placedBuildings, placedDecorations, enclosures)
       IN  enc # NULL /\ enc.gridY < resizingEnclosure.originalData.gridY

\* C30.  Edge detection result: a binding returned by detectEnclosureEdge
\* names at least one side and never both left and right nor both top and
\* bottom; no binding is returned when the pointer is farther than the
\* threshold from every side of every enclosure.
C30_EdgeResult ==
    last.op = "detect" =>
       /\ result # NULL =>
             /\ result.edge.left \/ result.edge.right
                   \/ result.edge.top \/ result.edge.bottom
             /\ ~(result.edge.left /\ result.edge.right)
             /\ ~(result.edge.top /\ result.edge.bottom)
             /\ \E i \in 1..Len(enclosures) : result.enclosure = enclosures[i]
       /\ ( \A i \in 1..Len(enclosures) : ~PointerNearEdge(enclosures[i], probe) )
             => result = NULL

\* The pointer is within the threshold of both the left and the right side of
\* an enclosure without width, near its top: the binding names the top side
\* alone.
C30_Witness ==
    /\ last.op = "detect"
    /\ result # NULL
    /\ result.enclosure.width = 0
    /\ Abs(probe.x - result.enclosure.gridX * CELL_SIZE) <= EDGE_THRESHOLD_PX
    /\ result.edge.top
    /\ ~result.edge.left /\ ~result.edge.right

\* A corner: the binding names two adjacent sides.
C30_WitnessCorner ==
    /\ last.op = "detect"
    /\ result # NULL
    /\ result.edge.right /\ result.edge.bottom

\* C31.  The duplicate check is per catalog entry: a drop of a building entry
\* other than the restroom, on cells in the grid that overlap nothing, is
\* refused exactly when an instance of that same entry is placed; instances
\* of other entries do not block it.
C31_DuplicatePerEntry ==
    [][ \A i \in 1..Len(BUILDINGS), p \in DropPositions :
          ( /\ BUILDINGS[i].id # "restroom"
            /\ handleGridDrop(BUILDINGS[i].id, p)
            /\ RectInGrid(DropRectangle(BUILDINGS[i].id, p))
            /\ ~\E k \in Placed :
                   RectOverlap(DropRectangle(BUILDINGS[i].id, p), EntityAt(k)) )
          => ( last'.out = "refused" <=> DropIsSecondInstance(BUILDINGS[i].id) ) ]_vars

\* C32.  From the empty zoo, with palette drops on the grid, the buttons,
\* start-over and one gesture at a time, whenever no gesture is in progress
\* no two stored entities overlap and every stored entity lies in the grid.
C32_IdleStoreValid ==
    ~GestureActive =>
        /\ \A a \in Placed, b \in Placed :
              a # b => ~RectOverlap(EntityAt(a), EntityAt(b))
        /\ \A k \in Placed : RectInGrid(EntityAt(k))

\* C32: a drag that ended on another entity was put back, two entities stored.
C32_Witness ==
    /\ ~GestureActive
    /\ last.op = "up"
    /\ last.out = "move-revert"
    /\ Cardinality(Placed) = 2

\* C32: a drag released right of the grid left the entity on the last column.
C32_WitnessBorder ==
    /\ ~GestureActive
    /\ last.op = "up"
    /\ last.out = "move-commit"
    /\ \E k \in Placed : EntityAt(k).gridX + EntityAt(k).width = GRID_SIZE
    /\ Cardinality(Placed) = 2

\* C33.  In every state of a Resizing gesture, after the down event and
\* after each move event alike, the enclosure being resized lies in the
\* grid, overlaps no other stored entity, and is at least one cell wide and
\* one cell high.
C33_ResizeValidThroughout ==
    resizingEnclosure # NULL =>
        LET enc == ObjectOf("enclosure", resizingEnclosure)
        IN  /\ RectInGrid(enc)
            /\ enc.width >= 1
            /\ enc.height >= 1
            /\ ~OverlapsAnother(Geometry(enc), "enclosure", enc.id)

\* C33: during a resize a candidate that overlapped the neighbour was
\* rejected.
C33_Witness ==
    /\ resizingEnclosure # NULL
    /\ last.op = "move"
    /\ last.out = "rejected"
    /\ Cardinality(Placed) = 2

\* C33: during a resize the enclosure was widened up to the grid's border.
C33_WitnessBorder ==
    /\ resizingEnclosure # NULL
    /\ last.op = "move"
    /\ last.out = "resized"
    /\ ObjectOf("enclosure", resizingEnclosure).width = 2
    /\ ObjectOf("enclosure", resizingEnclosure).gridX = GRID_SIZE - 2

\* C34.  The published encoding stays in sync: once loadFromURL has run,
\* whenever no gesture is in progress the 'z' parameter last written by
\* updateURL is the encoding of the store as it is (absent when the store is
\* empty), also after a resize that changed the geometry and was released
\* as a click.
C34_UrlInSync ==
    (loaded /\ ~GestureActive) =>
        url = UrlOf(placedBuildings, placedDecorations, enclosures)

\* C35.  The selected animal is never a used one: whenever no gesture is in
\* progress, state.selectedAnimal is null or the id of an animal that has no
\* enclosure.
C35_SelectedNotUsed ==
    ~GestureActive =>
        \/ selectedAnimal = NoAnimal
        \/ selectedAnimal \notin UsedAnimals(enclosures)

\* C35: the selected animal was given an enclosure by a draw, and the
\* selection went on to the next animal.
C35_Witness ==
    /\ ~GestureActive
    /\ last.op = "up"
    /\ last.out = "draw-added"
    /\ UsedAnimals(enclosures) = { ANIMALS[1].id }
    /\ selectedAnimal = ANIMALS[2].id

\* C35: every animal has an enclosure and none is selected.
C35_WitnessAllUsed ==
    /\ ~GestureActive
    /\ last.op = "up"
    /\ last.out = "draw-added"
    /\ UsedAnimals(enclosures) = { ANIMALS[i].id : i \in 1..Len(ANIMALS) }
    /\ selectedAnimal = NoAnimal

\* C35: the zoo loaded from a link holds an enclosure of the animal init()
\* had selected.
C35_WitnessLoad ==
    /\ last.op = "load"
    /\ ANIMALS[1].id \in UsedAnimals(enclosures)
    /\ selectedAnimal = ANIMALS[2].id

\* C36.  An available animal is always selected: once loadFromURL has run,
\* whenever no gesture is in progress, state.selectedAnimal is null only if
\* every animal of the catalog has an enclosure.
C36_AvailableSelected ==
    (loaded /\ ~GestureActive /\ selectedAnimal = NoAnimal) =>
        \A i \in 1..Len(ANIMALS) : ANIMALS[i].id \in UsedAnimals(enclosures)

\* C37.  A confirmed delete removes only the clicked entity: the callback
\* of a delete confirmation removes from its collection the entity of the
\* id the click was bound to, and nothing else; and while a confirmation for
\* an enclosure is awaited, no enclosure is created under that id (so the id
\* still names the enclosure that was clicked).
C37_ConfirmedDeleteRemovesClicked ==
    [][ /\ ( /\ pending # << >>
             /\ last'.op = "confirm"
             /\ last'.out \in { "enclosure", "building", "decoration" } )
           => LET dialog == pending[Len(pending)]
              IN  /\ Len(Collection(dialog.kind)) - Len(CollectionAfter(dialog.kind)) <= 1
                  /\ CollectionAfter(dialog.kind) = WithoutId(Collection(dialog.kind), dialog.id)
                  /\ \A kind \in { "enclosure", "building", "decoration" } \ { dialog.kind } :
                        CollectionAfter(kind) = Collection(kind)
        /\ \A i \in 1..Len(pending) :
              pending[i].kind = "enclosure" =>
                  ~ /\ Len(enclosures') > Len(enclosures)
                    /\ enclosures'[Len(enclosures')].id = pending[i].id ]_vars

\* C38.  Instance ids are unique across the three collections: no two
\* stored entities, be they buildings, decorations or enclosures, have the
\* same id string.
C38_IdsUniqueAcross ==
    \A a \in Placed, b \in Placed :
        a # b => IdStr(EntityAt(a).id) # IdStr(EntityAt(b).id)

\* C40.  Every gesture ends idle: after the up event of a gesture
\* state.drawing, state.movingItem, state.resizingEnclosure and
\* state.moveStartPos are all null, whether the release committed, reverted,
\* was rejected or asked for a deletion.
C40_GestureEndsIdle ==
    [][ (GestureActive /\ last'.op = "up")
          => /\ drawing' = NULL
             /\ movingItem' = NULL
             /\ resizingEnclosure' = NULL
             /\ moveStartPos' = NULL ]_vars

\* C40: a release asked for the deletion of the enclosure, and no gesture
\* field is set.
C40_Witness ==
    /\ last.op = "up"
    /\ last.out \in { "resize-click", "move-click" }
    /\ pending # << >>
    /\ ~GestureActive
    /\ moveStartPos = NULL

\* C40: a drawing over another entity was rejected.
C40_WitnessRejected ==
    /\ last.op = "up"
    /\ last.out = "draw-rejected"
    /\ ~GestureActive
    /\ Cardinality(Placed) >= 1

\* C40: a drag that ended on another entity was put back.
C40_WitnessReverted ==
    /\ last.op = "up"
    /\ last.out = "move-revert"
    /\ ~GestureActive
    /\ moveStartPos = NULL

\* The entity after is the entity before but for the fields gridX and gridY.
SameButPosition(before, after) ==
    [after EXCEPT !.gridX = before.gridX, !.gridY = before.gridY] = before

\* The entity after is the entity before but for its four geometry fields.
SameButGeometry(before, after) ==
    [after EXCEPT !.gridX = before.gridX, !.gridY = before.gridY,
                  !.width = before.width, !.height = before.height] = before

\* C39.  A gesture mutates only its bound entity: a move or up event of a
\* Moving gesture changes at most gridX and gridY of the moved entity, one of
\* a Resizing gesture at most the geometry of the bound enclosure, and one of
\* a Drawing leaves every stored entity as it is (the release may append the
\* new enclosure); no entity's id, catalog type or animal changes.
C39_GestureFrame ==
    [][ (GestureActive /\ last'.op \in { "move", "up" })
          => /\ \A kind \in { "building", "decoration", "enclosure" } :
                   /\ Len(CollectionAfter(kind)) >= Len(Collection(kind))
                   /\ \A i \in 1..Len(Collection(kind)) :
                         LET before == Collection(kind)[i]
                             after  == CollectionAfter(kind)[i]
                         IN  IF /\ resizingEnclosure # NULL
                                /\ kind = "enclosure"
                                /\ before.id = resizingEnclosure.id
                             THEN SameButGeometry(before, after)
                             ELSE IF /\ resizingEnclosure = NULL
                                     /\ movingItem # NULL
                                     /\ kind = movingItem.type
                                     /\ before.id = movingItem.id
                             THEN SameButPosition(before, after)
                             ELSE after = before
             /\ Len(placedBuildings') = Len(placedBuildings)
             /\ Len(placedDecorations') = Len(placedDecorations)
             /\ (drawing = NULL => Len(enclosures') = Len(enclosures)) ]_vars

\* C39: a move event of a Moving gesture moved one of two entities.
C39_Witness ==
    /\ movingItem # NULL
    /\ last.op = "move"
    /\ last.out = "moved"
    /\ Cardinality(Placed) = 2
    /\ LET item == ObjectOf(movingItem.type, movingItem)
       IN  item.gridX # movingItem.originalX

\* C39: a move event of a Resizing gesture resized the enclosure, another
\* entity being stored.
C39_WitnessResize ==
    /\ resizingEnclosure # NULL
    /\ last.op = "move"
    /\ last.out = "resized"
    /\ Cardinality(Placed) = 2
    /\ Geometry(ObjectOf("enclosure", resizingEnclosure))
           # resizingEnclosure.originalData

====
